---- MODULE Spec2Model ----
(***************************************************************************)
(* Framed H.264 streaming between the raspivid sender (android* encoder    *)
(* callbacks, src/unnamed/part_000 lines 1250-1571) and the framed         *)
(* receiver (DecoderThread, src/unnamed/part_000 lines 3047-3391).         *)
(*                                                                         *)
(* Bytes are numbers 0..255.  The socket is the byte sequence txout the    *)
(* sender has written, of which the receiver has consumed the first rxpos  *)
(* bytes.  Three specifications share the variables:                       *)
(*   SpecTx  the sender callbacks alone, any encoder buffer sequence;      *)
(*   SpecRx  the receiver alone, fed an arbitrary byte stream;             *)
(*   Spec    sender and receiver connected by the socket.                  *)
(***************************************************************************)
EXTENDS Integers, Sequences, FiniteSets, TLC

\* ------------------------------------------------------------------ bounds
\* lines read by the control thread
MaxLines == 2
\* the attempt limit of ConnectToHost, 10000000 in the program
MaxAttempts == 3
\* recv calls of the Raspberry Pi client
MaxReads == 2
\* longest payload of one encoder buffer
MaxLen == 1
\* number of encoder buffers delivered to the callback
MaxCallbacks == 3
\* number of length-prefixed records in an arbitrary receiver input stream
MaxRecords == 3
\* longest body that follows a prefix in an arbitrary receiver input stream
MaxBody == 2
\* number of system calls of SetupListenSocket interrupted by a signal
MaxEintr == 2
\* largest number of macroblocks in one direction
MaxMb == 3
\* "move=" lines read by the control thread
MaxMoves == 3
\* reads of TcpIpReader.read_exact answered with -1, the end of the stream
MaxEofReads == 3

\* ------------------------------------------------------- program constants
TCPIP_BUFFER_SIZE == 2000000
\* ANDROID_DATA_TYPES
RegularFrame == 1
MotionInFrame == 2
MotionAlarm == 3

VARIABLES
    \* sender (raspivid)
    mode,                 \* name of the callback chosen with -m
    tx_pc,                \* "open_filename" | "running" | "exited"
    p_buf_partial_begin,  \* <<>> (NULL) or <<buffer>>
    b1_config_sent,       \* static counter of encoder_buffer_callback_android_motion
    gMotionAlarm,         \* alarm threshold, 0 = disabled
    i64FramesCnt,         \* frames counted by handle_frame_end
    txout,                \* every byte the peer of the receiver wrote to the socket
    cblog,                \* history: one entry per callback invocation
    \* receiver (DecoderThread)
    rxpos,                \* number of bytes of txout consumed by inputStream.read
    rx_pc,                \* position of DecoderThread.run
    rxFault,              \* why run() ended, "" while it runs
    sps_i,                \* loop variable i of the SPS/PPS loop
    rxLen,                \* sps_or_pps_len / iFrameLen
    rxPrefix,             \* history: the 4 bytes of the last length prefix interpreted
    iToRead,              \* read_exact local
    offset,               \* read_exact local
    rdCnt,                \* read_exact parameter cnt
    rdStart,              \* history: rxpos when read_exact was called
    rdChunks,             \* history: inputStream.read calls that returned data in this read_exact
    buffer,               \* the written part of byte[] buffer (the rest is 0)
    decq,                 \* units queued to the decoder with queueInputBuffer
                          \* (at: history, the stream position of the payload)
    socket,               \* "open" | "null"
    inputStream,          \* "open" | "null"
    \* sender, control thread (receive_commands)
    runTimeShowStat,      \* callback_data.runTimeShowStat
    inlineVectors,        \* MMAL_PARAMETER_VIDEO_ENCODE_INLINE_VECTORS of the encoder
    cam_calls,            \* calls made to the camera and encoder collaborators
    ctl_last,             \* history: the last line getline returned
    ctl_cnt,              \* history: number of lines processed
    crop,                 \* MMAL_PARAMETER_INPUT_CROP of the camera: crop.rect
    alarm_held,           \* history: the values gMotionAlarm has held
    annotate_text,        \* MMAL_PARAMETER_ANNOTATE of the camera: annotate.text
    ctl_pc,               \* receive_commands: "getline" | "returned" | "exit"
    toggled_at,           \* history: the number of callbacks that had run when
                          \* SwitchMotionVectorsOnFly disabled and enabled the port
    \* Raspberry Pi client (video.c)
    cth_pc,               \* ConnectToHost: "loop" | "returned" | "exited" | "idle"
    iConnectCnt,
    bConnected,
    sfd,
    cth_open,             \* descriptors made by socket() and not closed
    cth_ret,              \* value returned by ConnectToHost
    cth_last,             \* history: how the last connection attempt ended
    sfd_flags,            \* file status flags of the socket sfd (F_GETFL)
    peer_listening,       \* the peer accepts connections
    nFilledLen,           \* buff_header->nFilledLen, an OMX_U32, as [hi, lo]
    cli_emptied,          \* buffers passed to OMX_EmptyThisBuffer
    cli_exit,             \* exit code of the client, 0 while it runs
    \* Raspberry Pi client, listen mode (main, SetupListenSocket)
    recv_timeout,         \* main: set by option -t
    lsn_pc,               \* "idle" | "getopt" | "socket" | "bind" | "listen" |
                          \* "accept" | "close" | "done"
    sockListen,
    so_rcvtimeo,          \* SO_RCVTIMEO of the accepted socket in s, 0: none
    lsn_calls,            \* history: the system calls of SetupListenSocket
    \* sender, main and open_filename
    netListen,            \* state.netListen (option -l)
    sockFD,               \* callback_data.sockFD
    file_handle,          \* callback_data.file_handle: "NULL" | "open"
    sock_connected,       \* sockFD is a socket connected to the peer
    of_calls,             \* history: the system calls of open_filename
    \* sender, DetectMotion
    mbx,                  \* state.mbx
    mby,                  \* state.mby
    dm_pc,                \* DetectMotion: "idle" | "loop" | "returned"
    dm_x,                 \* x
    dm_j,                 \* j
    max_vxvy,
    dm_read,              \* history: the indices of imv that were read
    dm_seen,              \* history: the vectors read
    \* sender, the alarm test of encoder_buffer_callback_android_motion
    si_pc,                \* "idle" | "nonzero" | "greater"
    si_mot,               \* mot
    si_read,              \* what gMotionAlarm != 0 read
    hfe_pc,               \* handle_frame_end: "idle" | "my_annotate"
    \* frame lengths alone: the sender's prefix and the receiver's test of it
    partial_length,       \* p_buf_partial_begin->length, -1 when it is NULL
    length_prefix,        \* the 4 bytes of the last frame length sent, <<>> when read
    iFrameLen,            \* DecoderThread.run: iFrameLen
    len_verdict           \* "none" | "wait" | "accepted" | "oversize"

txvars == <<mode, tx_pc, p_buf_partial_begin, b1_config_sent, gMotionAlarm,
            i64FramesCnt, txout, cblog>>
rxvars == <<rxpos, rx_pc, rxFault, sps_i, rxLen, rxPrefix, iToRead, offset,
            rdCnt, rdStart, rdChunks, buffer, decq, socket, inputStream>>
ctlvars == <<runTimeShowStat, inlineVectors, cam_calls, ctl_last, ctl_cnt,
             crop, alarm_held, annotate_text, toggled_at, ctl_pc>>
clivars == <<cth_pc, iConnectCnt, bConnected, sfd, cth_open, cth_ret, cth_last,
             sfd_flags, peer_listening, nFilledLen, cli_emptied, cli_exit,
             recv_timeout, lsn_pc, sockListen, so_rcvtimeo, lsn_calls>>
lsnvars == <<recv_timeout, lsn_pc, sockListen, so_rcvtimeo, lsn_calls>>
ofvars == <<netListen, sockFD, file_handle, sock_connected, of_calls>>
cbvars == <<si_pc, si_mot, si_read, hfe_pc>>
motvars == <<mbx, mby, dm_pc, dm_x, dm_j, max_vxvy, dm_read, dm_seen, cbvars>>
lenvars == <<partial_length, length_prefix, iFrameLen, len_verdict>>
vars == <<txvars, rxvars, ctlvars, clivars, ofvars, motvars, lenvars>>

\* ----------------------------------------------------------------- helpers
Min(a, b) == IF a < b THEN a ELSE b
Max(a, b) == IF a > b THEN a ELSE b

NULL == <<>>

Modes == {"android", "android_dimon", "android_motion"}

\* payload of the k-th encoder buffer: len bytes, different in every buffer
\* and at every position (the callbacks never look at video bytes)
BufData(k, len) == [i \in 1..len |-> 16 * k + i]

\* a uint32_t written to the socket from memory on the little-endian sender
LE32(n) == << n % 256, (n \div 256) % 256, (n \div 65536) % 256,
              (n \div 16777216) % 256 >>

\* send(2): the number of bytes the socket accepts of bytes when the
\* transport takes at most quota more bytes (a short count; an error takes none)
send(quota, bytes) == IF quota >= Len(bytes) THEN Len(bytes) ELSE quota

\* one send; exit(__LINE__) when the socket did not take all of it.  c is the
\* running callback: out = bytes it wrote, alive = process not exited,
\* ret = history, what the send that made the process exit returned (-1: none)
SendToAndroid(c, bytes) ==
    IF ~c.alive THEN c
    ELSE LET n == send(c.quota, bytes)
         IN IF Len(bytes) # n
            THEN [c EXCEPT !.out = @ \o SubSeq(bytes, 1, n),
                           !.alive = FALSE, !.exit = 1259, !.quota = 0,
                           !.ret = n]
            ELSE [c EXCEPT !.out = @ \o bytes, !.quota = @ - n]

\* history only: the callback wrote a whole message of this kind
Emitted(c, kind, payload) ==
    IF c.alive THEN [c EXCEPT !.emit = kind, !.payload = payload] ELSE c

handle_frame_end(c) ==
    IF c.alive THEN [c EXCEPT !.frames = @ + 1] ELSE c

\* unsigned char DetectMotion(...): the score of a side-info buffer is an
\* input of the callback here
MotScores == {0, 7}

\* ------------------------------------------------------ the sender callbacks
\* mmal_buffer_header_release(which) and, the port being enabled, a buffer of
\* the pool sent to the port with mmal_port_send_buffer
Released(c, which) ==
    [c EXCEPT !.released = Append(@, which), !.sent = @ + 1]

\* the end of a frame whose first chunk was pending: the pending buffer is
\* released and p_buf_partial_begin = NULL
released_partial(c) ==
    [Released(c, "p_buf_partial_begin") EXCEPT !.partial = NULL]

\* the end of the android callbacks: if (!p_buf_partial_begin) release buffer
\* and send one back to the port
release_buffer(c) ==
    IF c.alive /\ c.partial = NULL THEN Released(c, "buffer") ELSE c

\* the end of the raw_tcp callback
release_buffer_raw_tcp(c) == IF c.alive THEN Released(c, "buffer") ELSE c

\* Each callback maps the running-callback record c (partial = the pending
\* p_buf_partial_begin, b1 = b1_config_sent, frames = i64FramesCnt) and the
\* delivered buffer [flags, data] to the record after the callback.

\* Variants of the program with one seeded fault each.  A property that is
\* worth its name fails on the variant it is paired with.

\* encoder_buffer_callback_android without "p_buf_partial_begin = NULL" after
\* the two-chunk frame has been sent
android_keeps_partial(c, buf) ==
    LET length == Len(buf.data) IN
    IF length = 0 THEN c
    ELSE IF "CONFIG" \in buf.flags
    THEN LET c1 == SendToAndroid(c, LE32(length))
             c2 == SendToAndroid(c1, buf.data)
         IN Emitted(c2, "config", buf.data)
    ELSE IF "CODECSIDEINFO" \in buf.flags
    THEN c
    ELSE IF buf.flags = {}
    THEN IF c.partial # NULL
         THEN [c EXCEPT !.alive = FALSE, !.exit = 12]
         ELSE [c EXCEPT !.partial = <<buf>>]
    ELSE IF "FRAME_END" \in buf.flags
    THEN IF c.partial # NULL
         THEN LET pb == c.partial[1]
                  all_length == Len(pb.data) + length
                  c1 == SendToAndroid(c, LE32(all_length))
                  c2 == SendToAndroid(c1, pb.data)
                  c3 == SendToAndroid(c2, buf.data)
              IN handle_frame_end(Emitted(c3, "picture", pb.data \o buf.data))
         ELSE LET c1 == SendToAndroid(c, LE32(length))
                  c2 == SendToAndroid(c1, buf.data)
              IN handle_frame_end(Emitted(c2, "picture", buf.data))
    ELSE c

\* encoder_buffer_callback_android_dimon sending a buffer without flags at
\* once as a frame of its own instead of keeping it for the FRAME_END buffer
dimon_sends_first_chunk(c, buf) ==
    LET length == Len(buf.data) IN
    IF length = 0 THEN c
    ELSE IF "CONFIG" \in buf.flags
    THEN LET c1 == SendToAndroid(c, LE32(length))
             c2 == SendToAndroid(c1, buf.data)
         IN Emitted(c2, "config", buf.data)
    ELSE IF "CODECSIDEINFO" \in buf.flags
    THEN c
    ELSE IF buf.flags = {} \/ "FRAME_END" \in buf.flags
    THEN LET c1 == SendToAndroid(c, LE32(length))
             c2 == SendToAndroid(c1, buf.data)
         IN handle_frame_end(Emitted(c2, "picture", buf.data))
    ELSE c

encoder_buffer_callback_android(c, buf) ==
    LET length == Len(buf.data) IN
    IF length = 0 THEN c
    ELSE IF "CONFIG" \in buf.flags
    THEN LET c1 == SendToAndroid(c, LE32(length))
             c2 == SendToAndroid(c1, buf.data)
         IN Emitted(c2, "config", buf.data)
    ELSE IF "CODECSIDEINFO" \in buf.flags
    THEN c
    ELSE IF buf.flags = {}
    THEN IF c.partial # NULL
         THEN [c EXCEPT !.alive = FALSE, !.exit = 12]
         ELSE [c EXCEPT !.partial = <<buf>>]
    ELSE IF "FRAME_END" \in buf.flags
    THEN IF c.partial # NULL
         THEN LET pb == c.partial[1]
                  all_length == Len(pb.data) + length
                  c1 == SendToAndroid(c, LE32(all_length))
                  c2 == SendToAndroid(c1, pb.data)
                  c3 == SendToAndroid(c2, buf.data)
                  c4 == IF c3.alive THEN released_partial(c3) ELSE c3
              IN handle_frame_end(Emitted(c4, "picture", pb.data \o buf.data))
         ELSE LET c1 == SendToAndroid(c, LE32(length))
                  c2 == SendToAndroid(c1, buf.data)
              IN handle_frame_end(Emitted(c2, "picture", buf.data))
    ELSE c

encoder_buffer_callback_android_dimon(c, buf) ==
    LET length == Len(buf.data) IN
    IF length = 0 THEN c
    ELSE IF "CONFIG" \in buf.flags
    THEN LET c1 == SendToAndroid(c, LE32(length))
             c2 == SendToAndroid(c1, buf.data)
         IN Emitted(c2, "config", buf.data)
    ELSE IF "CODECSIDEINFO" \in buf.flags
    THEN c
    ELSE IF buf.flags = {}
    THEN IF c.partial # NULL
         THEN [c EXCEPT !.alive = FALSE, !.exit = 12]
         ELSE [c EXCEPT !.partial = <<buf>>]
    ELSE IF "FRAME_END" \in buf.flags
    THEN IF c.partial # NULL
         THEN LET pb == c.partial[1]
                  all_length == Len(pb.data) + length
                  c1 == SendToAndroid(c, LE32(all_length))
                  c2 == SendToAndroid(c1, pb.data)
                  c3 == SendToAndroid(c2, buf.data)
                  c4 == IF c3.alive THEN released_partial(c3) ELSE c3
              IN handle_frame_end(Emitted(c4, "picture", pb.data \o buf.data))
         ELSE LET c1 == SendToAndroid(c, LE32(length))
                  c2 == SendToAndroid(c1, buf.data)
              IN handle_frame_end(Emitted(c2, "picture", buf.data))
    ELSE c

\* encoder_buffer_callback_android_motion without the b1_config_sent counter:
\* every CONFIG buffer is sent as the other android callbacks send it
android_motion_resends_config(c, buf, mot) ==
    encoder_buffer_callback_android(c, buf)

\* (gMotionAlarm != 0) && ((int)mot) > gMotionAlarm
AlarmAtThreshold(mot, alarm) == alarm # 0 /\ mot >= alarm

AlarmRaised(mot, alarm) == alarm # 0 /\ mot > alarm

\* mot is the value DetectMotion returns for a side-info buffer
encoder_buffer_callback_android_motion(c, buf, mot) ==
    LET length == Len(buf.data) IN
    IF length = 0 THEN c
    ELSE IF c.b1 < 2 /\ "CONFIG" \in buf.flags
    THEN LET c0 == [c EXCEPT !.b1 = @ + 1]
             c1 == SendToAndroid(c0, LE32(length))
             c2 == SendToAndroid(c1, buf.data)
         IN Emitted(c2, "config", buf.data)
    ELSE IF "CODECSIDEINFO" \in buf.flags
    THEN LET c1 == SendToAndroid(c, <<MotionInFrame>>)
             c2 == SendToAndroid(c1, <<mot>>)
             c3 == IF AlarmRaised(mot, gMotionAlarm)
                   THEN SendToAndroid(c2, <<MotionAlarm>>)
                   ELSE c2
         IN Emitted(c3, "motion", <<mot>>)
    ELSE IF buf.flags = {}
    THEN IF c.partial # NULL
         THEN [c EXCEPT !.alive = FALSE, !.exit = 12]
         ELSE [c EXCEPT !.partial = <<buf>>]
    ELSE IF "FRAME_END" \in buf.flags
    THEN IF c.partial # NULL
         THEN LET pb == c.partial[1]
                  all_length == Len(pb.data) + length
                  c0 == SendToAndroid(c, <<RegularFrame>>)
                  c1 == SendToAndroid(c0, LE32(all_length))
                  c2 == SendToAndroid(c1, pb.data)
                  c3 == SendToAndroid(c2, buf.data)
                  c4 == IF c3.alive THEN released_partial(c3) ELSE c3
              IN handle_frame_end(Emitted(c4, "picture", pb.data \o buf.data))
         ELSE LET c0 == SendToAndroid(c, <<RegularFrame>>)
                  c1 == SendToAndroid(c0, LE32(length))
                  c2 == SendToAndroid(c1, buf.data)
              IN handle_frame_end(Emitted(c2, "picture", buf.data))
    ELSE c

\* the callback of -m raw_tcp: one send of the buffer's bytes
encoder_buffer_callback_raw_tcp(c, buf) ==
    LET length == Len(buf.data) IN
    IF length = 0 THEN c
    ELSE IF "CODECSIDEINFO" \in buf.flags
    THEN c
    ELSE LET n == send(c.quota, buf.data)
         IN IF length # n
            THEN [c EXCEPT !.out = @ \o SubSeq(buf.data, 1, n),
                           !.alive = FALSE, !.exit = 1647, !.quota = 0,
                           !.ret = n]
            ELSE LET c1 == Emitted([c EXCEPT !.out = @ \o buf.data,
                                             !.quota = @ - n],
                                   "raw", buf.data)
                 IN IF "FRAME_END" \in buf.flags
                    THEN handle_frame_end(c1) ELSE c1

\* flag words the encoder puts on a buffer that carries data
EncoderFlags ==
    { {}, {"FRAME_START"}, {"FRAME_START", "KEYFRAME"}, {"FRAME_END"},
      {"CONFIG"}, {"CONFIG", "FRAME_END"}, {"CODECSIDEINFO"} }

\* the buffers the encoder may deliver as its k-th buffer: any flag word with
\* 1..MaxLen bytes, or an empty buffer
EncoderBuffers(k) ==
    { [flags |-> f, data |-> BufData(k, len)] : f \in EncoderFlags, len \in 1..MaxLen }
    \cup { [flags |-> {"FRAME_END"}, data |-> <<>>] }

\* bytes the socket still takes during one callback: none (send returns 0
\* or -1), a part of the first block, the first blocks only, or all
NoLimit == 6 + 2 * MaxLen
Quotas == {0, 2, 5, NoLimit}

\* The encoder delivers one buffer and the callback selected by -m runs on it.
encoder_buffer_callback(bufs, quotas) ==
    /\ tx_pc = "running"
    /\ Len(cblog) < MaxCallbacks
    /\ \E buf \in bufs, q \in quotas :
       \E mot \in (IF mode = "android_motion" /\ "CODECSIDEINFO" \in buf.flags
                   THEN MotScores ELSE {0}) :
         LET c0 == [out |-> <<>>, alive |-> TRUE, exit |-> 0, quota |-> q,
                    partial |-> p_buf_partial_begin, b1 |-> b1_config_sent,
                    frames |-> i64FramesCnt, emit |-> "none", payload |-> <<>>,
                    ret |-> -1, released |-> <<>>, sent |-> 0]
             c == CASE mode = "android" ->
                         release_buffer(encoder_buffer_callback_android(c0, buf))
                    [] mode = "android_dimon" ->
                         release_buffer(
                            encoder_buffer_callback_android_dimon(c0, buf))
                    [] mode = "android_motion" ->
                         release_buffer(
                            encoder_buffer_callback_android_motion(c0, buf, mot))
                    [] mode = "raw_tcp" ->
                         release_buffer_raw_tcp(
                            encoder_buffer_callback_raw_tcp(c0, buf))
         IN /\ txout' = txout \o c.out
            /\ tx_pc' = IF c.alive THEN "running" ELSE "exited"
            /\ p_buf_partial_begin' = c.partial
            /\ b1_config_sent' = c.b1
            /\ i64FramesCnt' = c.frames
            /\ cblog' = Append(cblog, [buf |-> buf, pend |-> p_buf_partial_begin,
                                       b1 |-> b1_config_sent, out |-> c.out,
                                       emit |-> c.emit, payload |-> c.payload,
                                       exit |-> c.exit, ret |-> c.ret,
                                       released |-> c.released,
                                       sent |-> c.sent])
    /\ UNCHANGED <<mode, gMotionAlarm>>

TxCallback ==
    /\ encoder_buffer_callback(EncoderBuffers(Len(cblog) + 1), Quotas)
    /\ UNCHANGED <<rxvars, ctlvars, clivars, ofvars, motvars, lenvars>>

\* the crop rectangle of the whole sensor, in 16.16 fixed point
FullFrame == [x |-> 0, y |-> 0, width |-> 65536, height |-> 65536]

\* the control thread has read nothing yet (state zeroed by default_status)
CtlInit ==
    /\ runTimeShowStat = 0
    /\ inlineVectors = 0
    /\ cam_calls = <<>>
    /\ ctl_last = <<>>
    /\ ctl_cnt = 0
    /\ crop = FullFrame
    /\ alarm_held = {0}
    /\ annotate_text = ""
    /\ toggled_at = {}
    /\ ctl_pc = "getline"

\* unsigned short recv_timeout = 3
DefaultRecvTimeout == 3

\* SetupListenSocket has not been called
LsnIdle ==
    /\ recv_timeout = DefaultRecvTimeout /\ lsn_pc = "idle" /\ sockListen = -1
    /\ so_rcvtimeo = 0 /\ lsn_calls = <<>>

\* the Raspberry Pi client is not running
CliIdle ==
    /\ cth_pc = "idle" /\ iConnectCnt = 0 /\ bConnected = FALSE /\ sfd = -1
    /\ cth_open = {} /\ cth_ret = -1 /\ cth_last = "none" /\ sfd_flags = {}
    /\ peer_listening = FALSE
    /\ nFilledLen = [hi |-> 0, lo |-> 0] /\ cli_emptied = <<>> /\ cli_exit = 0
    /\ LsnIdle

\* no callback is in the alarm test or in handle_frame_end
CbIdle == si_pc = "idle" /\ si_mot = 0 /\ si_read = 0 /\ hfe_pc = "idle"

\* DetectMotion is not running
MotIdle ==
    /\ mbx = 1 /\ mby = 1 /\ dm_pc = "idle" /\ dm_x = 0 /\ dm_j = 0
    /\ max_vxvy = 0 /\ dm_read = {} /\ dm_seen = {}
    /\ CbIdle

\* no frame length is under way
LenIdle ==
    /\ partial_length = -1 /\ length_prefix = <<>> /\ iFrameLen = 0
    /\ len_verdict = "none"

\* the output was opened and is connected to the peer
Opened ==
    /\ netListen = FALSE /\ sockFD = 3 /\ file_handle = "open"
    /\ sock_connected = TRUE /\ of_calls = <<>>

TxInit ==
    /\ Opened
    /\ MotIdle
    /\ LenIdle
    /\ CtlInit
    /\ CliIdle
    /\ mode \in Modes
    /\ tx_pc = "running"
    /\ p_buf_partial_begin = NULL
    /\ b1_config_sent = 0
    /\ gMotionAlarm = 0
    /\ i64FramesCnt = 0
    /\ txout = <<>>
    /\ cblog = <<>>

\* the receiver has not been started
RxIdle ==
    /\ rxpos = 0 /\ rx_pc = "idle" /\ rxFault = "" /\ sps_i = 0 /\ rxLen = 0
    /\ rxPrefix = <<>> /\ iToRead = 0 /\ offset = 0 /\ rdCnt = 0 /\ rdStart = 0
    /\ rdChunks = 0 /\ buffer = <<>> /\ decq = <<>>
    /\ socket = "null" /\ inputStream = "null"

\* -------------------------------------------------- the receiver (DecoderThread)
\* int byteArrayToInt(byte[] b): the four bytes or-ed into a Java int; bit 31
\* is the sign, so a top byte of 128 or more gives a negative number
byteArrayToInt(b) ==
    b[1] + b[2] * 256 + b[3] * 65536
         + (IF b[4] >= 128 THEN b[4] - 256 ELSE b[4]) * 16777216

\* buffer[i-1] of the Java array: 0 where nothing was ever written
BufAt(buf, i) == IF i <= Len(buf) THEN buf[i] ELSE 0

\* the first n bytes of the array, as inputBuffer.put(buffer, 0, n) copies them
Take(buf, n) == [i \in 1..n |-> BufAt(buf, i)]

\* inputStream.read(buffer, 0, ...): the variant of read_exact that forgets
\* the offset and stores every chunk at the start of the array
StoreChunkAtStart(buf, off, chunk) ==
    [i \in 1..Max(Len(buf), Len(chunk)) |->
        IF i <= Len(chunk) THEN chunk[i] ELSE BufAt(buf, i)]

\* inputStream.read(buffer, off, ...) storing the bytes chunk it received
StoreChunk(buf, off, chunk) ==
    [i \in 1..Max(Len(buf), off + Len(chunk)) |->
        IF off < i /\ i <= off + Len(chunk) THEN chunk[i - off] ELSE BufAt(buf, i)]

\* bytes written by the peer and not yet read
Avail == Len(txout) - rxpos

Reading == {"sps_hdr", "sps_body", "hdr", "body"}

\* read_exact(buffer, cnt) is entered; pc tells what is being read
CallReadExact(pc, cnt) ==
    /\ rx_pc' = pc
    /\ rdCnt' = cnt
    /\ iToRead' = cnt
    /\ offset' = 0
    /\ rdStart' = rxpos
    /\ rdChunks' = 0
    /\ UNCHANGED <<socket, inputStream>>

\* run() ends through the catch block and the cleanup after it, which
\* closes inputStream and socket
RxFinish(why) ==
    /\ rx_pc' = "finished"
    /\ rxFault' = why
    /\ inputStream' = "null"
    /\ socket' = "null"
    /\ UNCHANGED <<iToRead, offset, rdCnt, rdStart, rdChunks>>

\* run() ends with a return statement inside the try block
RxReturn(why) ==
    /\ rx_pc' = "returned"
    /\ rxFault' = why
    /\ UNCHANGED <<socket, inputStream>>
    /\ UNCHANGED <<iToRead, offset, rdCnt, rdStart, rdChunks>>

\* while (!Thread.interrupted()) followed by read_exact(buffer, 4)
RxLoopHead ==
    \E interrupted \in BOOLEAN :
        IF interrupted
        THEN RxFinish("interrupted")
        ELSE CallReadExact("hdr", 4) /\ rxFault' = rxFault

\* one pass of the while loop of read_exact: one inputStream.read call
RxRead ==
    /\ rx_pc \in Reading
    /\ iToRead > 0
    /\ \/ \* len > b.length - off: IndexOutOfBoundsException, caught, return false
          /\ iToRead > TCPIP_BUFFER_SIZE - offset
          /\ RxFinish("read_exact")
          /\ UNCHANGED <<rxpos, buffer>>
       \/ \* the socket delivers 1..iToRead of the bytes it has
          /\ iToRead <= TCPIP_BUFFER_SIZE - offset
          /\ \E read \in 1..Min(iToRead, Avail) :
               /\ buffer' = StoreChunk(buffer, offset,
                                       SubSeq(txout, rxpos + 1, rxpos + read))
               /\ rxpos' = rxpos + read
               /\ iToRead' = iToRead - read
               /\ offset' = offset + read
               /\ rdChunks' = rdChunks + 1
          /\ UNCHANGED <<rx_pc, rxFault, rdCnt, rdStart, socket, inputStream>>
       \/ \* end of stream: read returns -1, "qwer" is thrown, return false
          /\ iToRead <= TCPIP_BUFFER_SIZE - offset
          /\ Avail = 0
          /\ tx_pc = "exited"
          /\ RxFinish("read_exact")
          /\ UNCHANGED <<rxpos, buffer>>
    /\ UNCHANGED <<sps_i, rxLen, rxPrefix, decq>>
    /\ UNCHANGED <<txvars, ctlvars, clivars, ofvars, motvars, lenvars>>

\* inputStream.read, with nothing left to deliver, throws an IOException
\* (connection reset)
RxReadError ==
    /\ rx_pc \in Reading
    /\ iToRead > 0
    /\ iToRead <= TCPIP_BUFFER_SIZE - offset
    /\ Avail = 0
    /\ RxFinish("read_exact")
    /\ UNCHANGED <<rxpos, buffer, sps_i, rxLen, rxPrefix, decq>>
    /\ UNCHANGED <<txvars, ctlvars, clivars, ofvars, motvars, lenvars>>

\* SPS/PPS loop: the length was read; read_exact(buffer, sps_or_pps_len)
RxSpsLen ==
    /\ rx_pc = "sps_hdr"
    /\ iToRead <= 0
    /\ rxLen' = byteArrayToInt(Take(buffer, 4))
    /\ rxPrefix' = Take(buffer, 4)
    /\ CallReadExact("sps_body", rxLen')
    /\ UNCHANGED <<rxpos, rxFault, sps_i, buffer, decq>>
    /\ UNCHANGED <<txvars, ctlvars, clivars, ofvars, motvars, lenvars>>

\* SPS/PPS loop: the payload was read; dequeueInputBuffer, put, queueInputBuffer
RxSpsQueue ==
    /\ rx_pc = "sps_body"
    /\ iToRead <= 0
    /\ \E inputBufferId \in {-1, 0} :
         IF inputBufferId >= 0
         THEN IF rxLen < 0
              THEN \* inputBuffer.put(buffer, 0, len) throws IndexOutOfBoundsException
                   /\ RxFinish("put")
                   /\ UNCHANGED <<sps_i, decq>>
              ELSE /\ decq' = Append(decq, [flags |-> "BUFFER_FLAG_CODEC_CONFIG",
                                            data |-> Take(buffer, rxLen),
                                            at |-> rdStart])
                   /\ sps_i' = sps_i + 1
                   /\ IF sps_i + 1 < 2
                      THEN CallReadExact("sps_hdr", 4) /\ rxFault' = rxFault
                      ELSE RxLoopHead
         ELSE /\ RxReturn("dequeueInputBuffer")
              /\ UNCHANGED <<sps_i, decq>>
    /\ UNCHANGED <<rxpos, rxLen, rxPrefix, buffer>>
    /\ UNCHANGED <<txvars, ctlvars, clivars, ofvars, motvars, lenvars>>

\* main loop: the length was read; size check, dequeueInputBuffer,
\* read_exact(buffer, iFrameLen)
RxFrameLen ==
    /\ rx_pc = "hdr"
    /\ iToRead <= 0
    /\ rxLen' = byteArrayToInt(Take(buffer, 4))
    /\ rxPrefix' = Take(buffer, 4)
    /\ IF rxLen' > TCPIP_BUFFER_SIZE
       THEN RxReturn("iFrameLen")
       ELSE \E inputBufferId \in {-1, 0} :
              IF inputBufferId >= 0
              THEN CallReadExact("body", rxLen') /\ rxFault' = rxFault
              ELSE RxReturn("dequeueInputBuffer")
    /\ UNCHANGED <<rxpos, sps_i, buffer, decq>>
    /\ UNCHANGED <<txvars, ctlvars, clivars, ofvars, motvars, lenvars>>

\* the variant of the main loop that does not wait for read_exact to have
\* read the whole payload before it queues the unit
RxFrameQueueEarly ==
    /\ rx_pc = "body"
    /\ IF rxLen < 0
       THEN /\ RxFinish("put")
            /\ UNCHANGED decq
       ELSE /\ decq' = Append(decq, [flags |-> "0", data |-> Take(buffer, rxLen),
                                 at |-> rdStart])
            /\ RxLoopHead
    /\ UNCHANGED <<rxpos, sps_i, rxLen, rxPrefix, buffer>>
    /\ UNCHANGED <<txvars, ctlvars, clivars, ofvars, motvars, lenvars>>

\* main loop: the payload was read; put, queueInputBuffer, next iteration
RxFrameQueue ==
    /\ rx_pc = "body"
    /\ iToRead <= 0
    /\ IF rxLen < 0
       THEN /\ RxFinish("put")
            /\ UNCHANGED decq
       ELSE /\ decq' = Append(decq, [flags |-> "0", data |-> Take(buffer, rxLen),
                                 at |-> rdStart])
            /\ RxLoopHead
    /\ UNCHANGED <<rxpos, sps_i, rxLen, rxPrefix, buffer>>
    /\ UNCHANGED <<txvars, ctlvars, clivars, ofvars, motvars, lenvars>>

\* run() after the connection is made: the first read_exact(buffer, 4)
RxStart ==
    /\ rxpos = 0 /\ rx_pc = "sps_hdr" /\ rxFault = "" /\ sps_i = 0 /\ rxLen = 0
    /\ rxPrefix = <<>> /\ iToRead = 4 /\ offset = 0 /\ rdCnt = 4 /\ rdStart = 0
    /\ rdChunks = 0 /\ buffer = <<>> /\ decq = <<>>
    /\ socket = "open" /\ inputStream = "open"

RxNext == RxRead \/ RxReadError \/ RxSpsLen \/ RxSpsQueue \/ RxFrameLen \/ RxFrameQueue

\* ------------------------------------------- the receiver on an arbitrary stream
\* length prefixes a peer may send: MaxBody, 2000000, 2000001 and 2^31
RxPrefixes ==
    { LE32(MaxBody), LE32(TCPIP_BUFFER_SIZE), LE32(TCPIP_BUFFER_SIZE + 1),
      <<0, 0, 0, 128>> }

\* the receiver is blocked in inputStream.read: it wants bytes and has read
\* all the peer wrote (only then can it tell what the peer does next)
RxBlocked == rx_pc \in Reading /\ iToRead > 0 /\ Avail = 0

\* the peer writes a length prefix and no byte or MaxBody bytes after it
PeerWrite ==
    /\ tx_pc = "running"
    /\ RxBlocked
    /\ Len(cblog) < MaxRecords
    /\ \E prefix \in RxPrefixes, len \in {0, MaxBody} :
         LET rec == prefix \o BufData(Len(cblog) + 1, len)
         IN /\ txout' = txout \o rec
            /\ cblog' = Append(cblog, rec)
    /\ UNCHANGED <<mode, tx_pc, p_buf_partial_begin, b1_config_sent,
                   gMotionAlarm, i64FramesCnt>>
    /\ UNCHANGED <<rxvars, ctlvars, clivars, ofvars, motvars, lenvars>>

\* the peer closes the connection
PeerClose ==
    /\ tx_pc = "running"
    /\ RxBlocked
    /\ tx_pc' = "exited"
    /\ UNCHANGED <<mode, p_buf_partial_begin, b1_config_sent, gMotionAlarm,
                   i64FramesCnt, txout, cblog>>
    /\ UNCHANGED <<rxvars, ctlvars, clivars, ofvars, motvars, lenvars>>

InitRx == TxInit /\ mode = "android" /\ RxStart
NextRx == PeerWrite \/ PeerClose \/ RxNext
SpecRx == InitRx /\ [][NextRx]_vars

\* -------------------------------------------------- TcpIpReader.read_exact
\* The reader of the Java viewer has the fields socket and inputStream and the
\* locals iToRead, offset and read of DecoderThread.read_exact; rx_pc is
\* "tcp_call" | "tcp_loop" | "tcp_true" | "tcp_false" | "tcp_thrown".

\* the caller's byte[] has room for one byte more than the longest cnt
ArrayLength == MaxBody + 1

\* inputStream.read returned -1 this often during the running read_exact:
\* every other read adds to offset what it adds to rxpos
EofReads == (rxpos - rdStart) - offset

\* read_exact(buffer, cnt) is called: if (inputStream == null) return false
TcpIpReader_read_exact ==
    /\ rx_pc = "tcp_call"
    /\ \E cnt \in 0..MaxBody :
         /\ rdCnt' = cnt
         /\ rdStart' = rxpos
         /\ rdChunks' = 0
         /\ IF inputStream = "null"
            THEN rx_pc' = "tcp_false" /\ UNCHANGED <<iToRead, offset>>
            ELSE rx_pc' = "tcp_loop" /\ iToRead' = cnt /\ offset' = 0
    /\ UNCHANGED <<rxpos, rxFault, sps_i, rxLen, rxPrefix, buffer, decq, socket,
                   inputStream>>
    /\ UNCHANGED <<txvars, ctlvars, clivars, ofvars, motvars, lenvars>>

\* one pass of while (iToRead > 0): read = inputStream.read(buffer, offset,
\* iToRead); iToRead -= read; offset += read
TcpIpReader_read ==
    /\ rx_pc = "tcp_loop"
    /\ iToRead > 0
    /\ \/ \* off < 0 or len > b.length - off: IndexOutOfBoundsException, which
          \* catch (IOException ex) does not catch
          /\ offset < 0 \/ iToRead > ArrayLength - offset
          /\ rx_pc' = "tcp_thrown"
          /\ rxFault' = "IndexOutOfBoundsException"
          /\ UNCHANGED <<rxpos, buffer, iToRead, offset, rdChunks>>
       \/ \* the socket delivers 1..iToRead of the bytes it has
          /\ offset >= 0 /\ iToRead <= ArrayLength - offset
          /\ \E read \in 1..Min(iToRead, Avail) :
               /\ buffer' = StoreChunk(buffer, offset,
                                       SubSeq(txout, rxpos + 1, rxpos + read))
               /\ rxpos' = rxpos + read
               /\ iToRead' = iToRead - read
               /\ offset' = offset + read
               /\ rdChunks' = rdChunks + 1
          /\ UNCHANGED <<rx_pc, rxFault>>
       \/ \* end of stream: read = -1.  A socket stream that has seen the end
          \* answers -1 before it looks at off and len, so the case offset < 0
          \* is here as well as above
          /\ Avail = 0
          /\ tx_pc = "exited"
          /\ EofReads < MaxEofReads
          /\ iToRead' = iToRead + 1
          /\ offset' = offset - 1
          /\ UNCHANGED <<rx_pc, rxFault, rxpos, buffer, rdChunks>>
       \/ \* IOException (connection reset, socket closed): return false
          /\ Avail = 0
          /\ rx_pc' = "tcp_false"
          /\ rxFault' = "IOException"
          /\ UNCHANGED <<rxpos, buffer, iToRead, offset, rdChunks>>
    /\ UNCHANGED <<sps_i, rxLen, rxPrefix, decq, rdCnt, rdStart, socket, inputStream>>
    /\ UNCHANGED <<txvars, ctlvars, clivars, ofvars, motvars, lenvars>>

\* the loop ends: return true
TcpIpReader_return ==
    /\ rx_pc = "tcp_loop"
    /\ iToRead <= 0
    /\ rx_pc' = "tcp_true"
    /\ UNCHANGED <<rxpos, rxFault, sps_i, rxLen, rxPrefix, iToRead, offset,
                   rdCnt, rdStart, rdChunks, buffer, decq, socket, inputStream>>
    /\ UNCHANGED <<txvars, ctlvars, clivars, ofvars, motvars, lenvars>>

\* the peer of the reader writes one byte
TcpPeerWrite ==
    /\ tx_pc = "running"
    /\ Len(txout) < ArrayLength
    /\ txout' = Append(txout, 16 + Len(txout))
    /\ UNCHANGED <<mode, tx_pc, p_buf_partial_begin, b1_config_sent,
                   gMotionAlarm, i64FramesCnt, cblog>>
    /\ UNCHANGED <<rxvars, ctlvars, clivars, ofvars, motvars, lenvars>>

\* the peer of the reader closes the connection
TcpPeerClose ==
    /\ tx_pc = "running"
    /\ tx_pc' = "exited"
    /\ UNCHANGED <<mode, p_buf_partial_begin, b1_config_sent, gMotionAlarm,
                   i64FramesCnt, txout, cblog>>
    /\ UNCHANGED <<rxvars, ctlvars, clivars, ofvars, motvars, lenvars>>

\* a TcpIpReader after its constructor: getConnection made the socket and
\* the stream, or threw and left both null
TcpStart ==
    /\ rxpos = 0 /\ rx_pc = "tcp_call" /\ rxFault = "" /\ sps_i = 0 /\ rxLen = 0
    /\ rxPrefix = <<>> /\ iToRead = 0 /\ offset = 0 /\ rdCnt = 0 /\ rdStart = 0
    /\ rdChunks = 0 /\ buffer = <<>> /\ decq = <<>>
    /\ \/ socket = "open" /\ inputStream = "open"
       \/ socket = "null" /\ inputStream = "null"

InitTcp == TxInit /\ mode = "android" /\ TcpStart
NextTcp ==
    \/ TcpPeerWrite \/ TcpPeerClose
    \/ TcpIpReader_read_exact \/ TcpIpReader_read \/ TcpIpReader_return
SpecTcp == InitTcp /\ [][NextTcp]_vars

\* ------------------------------------------------- sender and receiver together
\* The encoder starts with two CONFIG buffers (SPS, PPS), as the receiver
\* expects; later buffers are chunks, whole pictures, inline headers or side info.
E2EBuffers(k) ==
    { [flags |-> f, data |-> BufData(k, len)] :
        f \in (IF k <= 2 THEN {{"CONFIG"}}
               ELSE {{}, {"FRAME_END"}, {"CONFIG"}, {"CODECSIDEINFO"}}),
        len \in 1..MaxLen }

TxCallbackE2E ==
    /\ encoder_buffer_callback(E2EBuffers(Len(cblog) + 1), {5, NoLimit})
    /\ UNCHANGED <<rxvars, ctlvars, clivars, ofvars, motvars, lenvars>>

Init == TxInit /\ RxStart
Next == TxCallbackE2E \/ RxNext
Spec == Init /\ [][Next]_vars

InitTx == TxInit /\ RxIdle
NextTx == TxCallback
SpecTx == InitTx /\ [][NextTx]_vars

\* the sender started with -m raw_tcp
RawInit ==
    /\ Opened
    /\ MotIdle
    /\ LenIdle
    /\ CtlInit
    /\ mode = "raw_tcp"
    /\ tx_pc = "running"
    /\ p_buf_partial_begin = NULL
    /\ b1_config_sent = 0
    /\ gMotionAlarm = 0
    /\ i64FramesCnt = 0
    /\ txout = <<>>
    /\ cblog = <<>>
InitRaw == RawInit /\ CliIdle /\ RxIdle
SpecRaw == InitRaw /\ [][NextTx]_vars


\* --------------------------------------- the control thread (receive_commands)
\* A line is the sequence of its characters, the final "\n" included, as
\* getline returns it.
WhiteSpace == {" ", "\n"}
DigitVal ==
    ("0" :> 0) @@ ("1" :> 1) @@ ("2" :> 2) @@ ("3" :> 3) @@ ("4" :> 4) @@
    ("5" :> 5) @@ ("6" :> 6) @@ ("7" :> 7) @@ ("8" :> 8) @@ ("9" :> 9)

\* !strncmp(key, line, strlen(key))
strncmp0(key, line) ==
    Len(line) >= Len(key) /\ SubSeq(line, 1, Len(key)) = key

RECURSIVE SkipSpace(_)
SkipSpace(t) ==
    IF t # <<>> /\ Head(t) \in WhiteSpace THEN SkipSpace(Tail(t)) ELSE t

RECURSIVE ScanDigits(_, _)
ScanDigits(t, acc) ==
    IF t # <<>> /\ Head(t) \in DOMAIN DigitVal
    THEN ScanDigits(Tail(t), 10 * acc + DigitVal[Head(t)])
    ELSE acc

\* the variant of sscanf that never converts a number
sscanf_converts_nothing(t) == [n |-> 0, val |-> 0]

\* sscanf(line, "<key>=%d\n", &x) on the characters t that follow "<key>=":
\* white space is skipped, then an optional sign and at least one digit are
\* converted; n is the value sscanf returns (1, or 0 or EOF taken together
\* as 0), val the number stored when n = 1
sscanf_d(t) ==
    LET u == SkipSpace(t)
        signed == u # <<>> /\ Head(u) \in {"-", "+"}
        d == IF signed THEN Tail(u) ELSE u
    IN IF d # <<>> /\ Head(d) \in DOMAIN DigitVal
       THEN [n |-> 1,
             val |-> IF signed /\ Head(u) = "-" THEN 0 - ScanDigits(d, 0)
                     ELSE ScanDigits(d, 0)]
       ELSE [n |-> 0, val |-> 0]

\* the rest of a line after its first k characters
After(line, k) == SubSeq(line, k + 1, Len(line))

\* one call to a collaborator, appended to the calls of st
Call(st, fn, arg) == [st EXCEPT !.calls = Append(@, [fn |-> fn, arg |-> arg])]

\* st: calls = calls made so far, stat = runTimeShowStat, alarm = gMotionAlarm,
\* vectors = the encoder's inline-vectors parameter
SwitchMotionVectorsOnFly(st, bTurnOn) ==
    LET st1 == Call(st, "mmal_port_parameter_get_boolean", 0)
    IN IF st1.vectors = bTurnOn THEN st1
       ELSE [Call(st1, "mmal_port_parameter_set_boolean", bTurnOn)
                EXCEPT !.vectors = IF bTurnOn = 0 THEN 0 ELSE 1]

\* 'o', one axis: the rectangle grows by the increment around its centre, or
\* up to the far edge if the increment does not fit; r = [pos, size]
zoom_out_axis(r) ==
    LET zoom_increment_16P16 == 65536 \div 10
    IN IF r.pos + r.size + zoom_increment_16P16 < 65536
       THEN [pos |-> r.pos - zoom_increment_16P16 \div 2,
             size |-> r.size + zoom_increment_16P16]
       ELSE [pos |-> r.pos - zoom_increment_16P16 \div 2,
             size |-> 65536 - (r.pos - zoom_increment_16P16 \div 2)]

\* pos clipped to 0..65536 as at the end of case 'o'
clip_origin(pos) == IF pos < 0 THEN 0 ELSE IF pos > 65536 THEN 65536 ELSE pos

\* the rectangle my_raspicamcontrol_zoom_in_zoom_out passes to
\* mmal_port_parameter_set when mmal_port_parameter_get gave it rect
my_raspicamcontrol_zoom_in_zoom_out(rect, direction) ==
    LET iMoveStep == 500
        zoom_increment_16P16 == 65536 \div 10
    IN CASE direction = "l" ->
              [rect EXCEPT !.x = IF @ - iMoveStep < 0 THEN 0 ELSE @ - iMoveStep]
         [] direction = "r" ->
              [rect EXCEPT !.x =
                  IF @ + iMoveStep + rect.width > 65536
                  THEN @ + (65536 - (@ + rect.width)) ELSE @ + iMoveStep]
         [] direction = "u" ->
              [rect EXCEPT !.y = IF @ - iMoveStep < 0 THEN 0 ELSE @ - iMoveStep]
         [] direction = "d" ->
              [rect EXCEPT !.y =
                  IF @ + iMoveStep + rect.height > 65536
                  THEN @ + (65536 - (@ + rect.height)) ELSE @ + iMoveStep]
         [] direction = "i" ->
              [x |-> rect.x + zoom_increment_16P16 \div 2,
               y |-> rect.y + zoom_increment_16P16 \div 2,
               width |-> rect.width - zoom_increment_16P16,
               height |-> rect.height - zoom_increment_16P16]
         [] direction = "R" -> [x |-> 0, y |-> 0, width |-> 65536, height |-> 65536]
         [] direction = "o" ->
              LET h == zoom_out_axis([pos |-> rect.x, size |-> rect.width])
                  v1 == zoom_out_axis([pos |-> rect.y, size |-> rect.height])
                  v == zoom_out_axis(v1)
              IN [x |-> clip_origin(h.pos), y |-> clip_origin(v.pos),
                  width |-> h.size, height |-> v.size]
         [] OTHER -> rect

\* my_annotate(camera, string): the text of the overlay becomes string
my_annotate(st, string) ==
    [Call(st, "my_annotate", 0) EXCEPT !.text = string]

K_iso == <<"i", "s", "o", "=">>
K_ss == <<"s", "s", "=">>
K_stat == <<"s", "t", "a", "t", "=">>
K_motion == <<"m", "o", "t", "i", "o", "n", "=">>
K_move == <<"m", "o", "v", "e", "=">>
K_mot_alarm == <<"m", "o", "t", "_", "a", "l", "a", "r", "m", "=">>

\* the branch of "motion=": motion vectors are switched only while the
\* motion alarm is off
motion_command_always(st, line) ==
    LET r == sscanf_d(After(line, 7))
    IN IF r.n = 1 THEN SwitchMotionVectorsOnFly(st, r.val) ELSE st

motion_command(st, line) ==
    IF st.alarm = 0
    THEN LET r == sscanf_d(After(line, 7))
         IN IF r.n = 1 THEN SwitchMotionVectorsOnFly(st, r.val) ELSE st
    ELSE st

\* the body of the getline loop of receive_commands for one line
receive_line(st, line) ==
    IF strncmp0(K_iso, line)
    THEN LET r == sscanf_d(After(line, 4))
         IN IF r.n = 1 THEN Call(st, "raspicamcontrol_set_ISO", r.val) ELSE st
    ELSE IF strncmp0(K_ss, line)
    THEN LET r == sscanf_d(After(line, 3))
         IN IF r.n = 1 THEN Call(st, "raspicamcontrol_set_shutter_speed", r.val)
            ELSE st
    ELSE IF strncmp0(K_stat, line)
    THEN LET r == sscanf_d(After(line, 5))
             st1 == IF r.n = 1 THEN [st EXCEPT !.stat = r.val] ELSE st
         IN IF st1.stat = 0 THEN my_annotate(st1, "") ELSE st1
    ELSE IF strncmp0(K_motion, line)
    THEN motion_command(st, line)
    ELSE IF strncmp0(K_move, line)
    THEN Call(st, "my_raspicamcontrol_zoom_in_zoom_out", line[6])
    ELSE IF strncmp0(K_mot_alarm, line)
    THEN LET r == sscanf_d(After(line, 10))
         IN IF r.n = 1
            THEN SwitchMotionVectorsOnFly([st EXCEPT !.alarm = r.val],
                                          IF r.val = 0 THEN 0 ELSE 1)
            ELSE st
    ELSE st

\* values written after "<key>=": numbers, nothing, a letter
CtlValues == { <<"8">>, <<"0">>, <<>>, <<"l">> }
CtlKeys == {K_iso, K_ss, K_stat, K_motion, K_move, K_mot_alarm,
            <<"f", "o", "o", "=">>}
\* the lines the peer may send on the control channel
ControlLines == { k \o v \o <<"\n">> : k \in CtlKeys, v \in CtlValues }

\* getline returned one of lines and the loop body ran on it; max bounds the
\* number of lines read
receive_commands_upto(lines, max) ==
    /\ tx_pc = "running"
    /\ ctl_pc = "getline"
    /\ ctl_cnt < max
    /\ \E line \in lines :
         LET st == receive_line([calls |-> cam_calls, stat |-> runTimeShowStat,
                                 alarm |-> gMotionAlarm, vectors |-> inlineVectors,
                                 text |-> annotate_text],
                                line)
         IN /\ cam_calls' = st.calls
            /\ runTimeShowStat' = st.stat
            /\ gMotionAlarm' = st.alarm
            /\ alarm_held' = alarm_held \cup {st.alarm}
            /\ annotate_text' = st.text
            /\ toggled_at' =
                  IF \E k \in (Len(cam_calls) + 1)..Len(st.calls) :
                        st.calls[k].fn = "mmal_port_parameter_set_boolean"
                  THEN toggled_at \cup {Len(cblog)} ELSE toggled_at
            /\ inlineVectors' = st.vectors
            /\ ctl_last' = line
            /\ crop' = IF strncmp0(K_move, line)
                       THEN my_raspicamcontrol_zoom_in_zoom_out(crop, line[6])
                       ELSE crop
    /\ ctl_cnt' = ctl_cnt + 1
    /\ UNCHANGED ctl_pc
    /\ UNCHANGED <<mode, tx_pc, p_buf_partial_begin, b1_config_sent,
                   i64FramesCnt, txout, cblog>>
    /\ UNCHANGED <<rxvars, clivars, ofvars, motvars, lenvars>>

receive_commands_of(lines) == receive_commands_upto(lines, MaxLines)

receive_commands == receive_commands_of(ControlLines)

\* buffers delivered while the control thread runs
CtlBuffers(k) ==
    { [flags |-> f, data |-> BufData(k, 1)] :
        f \in { {}, {"FRAME_END"} } }

\* handle_frame_end after i64FramesCnt++: unless runTimeShowStat is 0 the
\* overlay is set to the frame statistics, my_annotate(camera, strFPS)
frame_end_overlay ==
    /\ annotate_text' = IF i64FramesCnt' # i64FramesCnt /\ runTimeShowStat # 0
                        THEN "FPS" ELSE annotate_text
    /\ UNCHANGED <<runTimeShowStat, inlineVectors, cam_calls, ctl_last, ctl_cnt,
                   crop, alarm_held, toggled_at, ctl_pc>>

TxCallbackCtl ==
    /\ encoder_buffer_callback(CtlBuffers(Len(cblog) + 1), {NoLimit})
    /\ frame_end_overlay
    /\ UNCHANGED <<rxvars, clivars, ofvars, motvars, lenvars>>

InitCtl == TxInit /\ mode = "android_motion" /\ RxIdle
NextCtl == TxCallbackCtl \/ receive_commands
SpecCtl == InitCtl /\ [][NextCtl]_vars

\* ---------------------------- the end of the control channel and main after it
\* getline returns -1 (end of input or a read error): the loop ends and
\* fclose(fpSock) closes the descriptor of fdopen(callback_data.sockFD, "r"),
\* the socket the callbacks send on
receive_commands_return ==
    /\ tx_pc = "running"
    /\ ctl_pc = "getline"
    /\ ctl_pc' = "returned"
    /\ sock_connected' = FALSE
    /\ UNCHANGED <<netListen, sockFD, file_handle, of_calls>>
    /\ UNCHANGED <<runTimeShowStat, inlineVectors, cam_calls, ctl_last, ctl_cnt,
                   crop, alarm_held, annotate_text, toggled_at>>
    /\ UNCHANGED <<txvars, rxvars, clivars, motvars, lenvars>>

\* main after receive_commands(&state): mmal_port_disable(encoder_output_port),
\* the connections and components are destroyed, return exit_code
main_after_receive_commands ==
    /\ tx_pc = "running"
    /\ ctl_pc = "returned"
    /\ ctl_pc' = "exit"
    /\ tx_pc' = "exited"
    /\ UNCHANGED <<mode, p_buf_partial_begin, b1_config_sent, gMotionAlarm,
                   i64FramesCnt, txout, cblog>>
    /\ UNCHANGED <<runTimeShowStat, inlineVectors, cam_calls, ctl_last, ctl_cnt,
                   crop, alarm_held, annotate_text, toggled_at>>
    /\ UNCHANGED <<rxvars, clivars, ofvars, motvars, lenvars>>

\* a callback while the control thread runs or has returned: a send on the
\* closed descriptor fails
TxCallbackEnd ==
    /\ encoder_buffer_callback(CtlBuffers(Len(cblog) + 1),
                               IF sock_connected THEN {NoLimit} ELSE {0})
    /\ frame_end_overlay
    /\ UNCHANGED <<rxvars, clivars, ofvars, motvars, lenvars>>

NextEnd ==
    \/ TxCallbackEnd \/ receive_commands
    \/ receive_commands_return \/ main_after_receive_commands
SpecEnd == InitCtl /\ [][NextEnd]_vars

\* ------------------- the overlay: handle_frame_end beside the control thread
\* handle_frame_end runs on the encoder's thread: it tests runTimeShowStat
\* and, later, calls my_annotate; receive_commands runs between the two.
StatLines == { K_stat \o v \o <<"\n">> : v \in { <<"1">>, <<"0">> } }

receive_stat == receive_commands_of(StatLines)

\* a callback up to the test in handle_frame_end:
\* i64FramesCnt++; if (0 == runTimeShowStat) return;
handle_frame_end_test ==
    /\ hfe_pc = "idle"
    /\ encoder_buffer_callback(CtlBuffers(Len(cblog) + 1), {NoLimit})
    /\ hfe_pc' = IF i64FramesCnt' # i64FramesCnt /\ runTimeShowStat # 0
                 THEN "my_annotate" ELSE "idle"
    /\ UNCHANGED <<si_pc, si_mot, si_read, mbx, mby, dm_pc, dm_x, dm_j,
                   max_vxvy, dm_read, dm_seen>>
    /\ UNCHANGED <<rxvars, ctlvars, clivars, ofvars, lenvars>>

\* the rest of handle_frame_end: snprintf, my_annotate(camera, strFPS)
handle_frame_end_annotate ==
    /\ hfe_pc = "my_annotate"
    /\ annotate_text' = "FPS"
    /\ hfe_pc' = "idle"
    /\ UNCHANGED <<runTimeShowStat, inlineVectors, cam_calls, ctl_last, ctl_cnt,
                   crop, alarm_held, toggled_at, ctl_pc>>
    /\ UNCHANGED <<si_pc, si_mot, si_read, mbx, mby, dm_pc, dm_x, dm_j,
                   max_vxvy, dm_read, dm_seen>>
    /\ UNCHANGED <<txvars, rxvars, clivars, ofvars, lenvars>>

NextStat == handle_frame_end_test \/ handle_frame_end_annotate \/ receive_stat
SpecStat == InitCtl /\ [][NextStat]_vars

\* ------------------------------------------------ the crop rectangle: "move="
MoveLines == { K_move \o <<d, "\n">> : d \in {"l", "r", "u", "d", "i", "o", "R"} }

receive_move == receive_commands_upto(MoveLines, MaxMoves)

NextCrop == receive_move
SpecCrop == InitCtl /\ [][NextCrop]_vars

\* ------------------------- the motion alarm: mot_alarm commands and side info
AlarmLines == { K_mot_alarm \o v \o <<"\n">> :
                  v \in { <<"7">>, <<"-", "1">>, <<"0">> } }

receive_mot_alarm == receive_commands_of(AlarmLines)

\* side information, and chunks that leave a partial pending
AlarmBuffers(k) ==
    { [flags |-> f, data |-> BufData(k, 1)] : f \in { {"CODECSIDEINFO"}, {} } }

TxCallbackAlarm ==
    /\ encoder_buffer_callback(AlarmBuffers(Len(cblog) + 1), {NoLimit})
    /\ UNCHANGED <<rxvars, ctlvars, clivars, ofvars, motvars, lenvars>>

NextAlarm == TxCallbackAlarm \/ receive_mot_alarm
SpecAlarm == InitCtl /\ [][NextAlarm]_vars

\* ------------- the alarm test beside the control thread, one read at a time
\* encoder_buffer_callback_android_motion on a side-info buffer runs on the
\* encoder's thread while receive_commands runs on the main thread.
\* gMotionAlarm is a plain int read twice by
\*    (gMotionAlarm != 0) && ((int)mot) > gMotionAlarm
\* and written by sscanf in the other thread.

\* the side-info buffer is delivered and DetectMotion returns mot
side_info_begin ==
    /\ tx_pc = "running"
    /\ si_pc = "idle"
    /\ Len(cblog) < MaxCallbacks
    /\ \E mot \in MotScores : si_mot' = mot
    /\ si_pc' = "nonzero"
    /\ UNCHANGED <<si_read, hfe_pc, mbx, mby, dm_pc, dm_x, dm_j, max_vxvy, dm_read, dm_seen>>
    /\ UNCHANGED <<txvars, rxvars, ctlvars, clivars, ofvars, lenvars>>

\* gMotionAlarm != 0
side_info_nonzero ==
    /\ si_pc = "nonzero"
    /\ si_read' = gMotionAlarm
    /\ si_pc' = "greater"
    /\ UNCHANGED <<si_mot, hfe_pc, mbx, mby, dm_pc, dm_x, dm_j, max_vxvy, dm_read, dm_seen>>
    /\ UNCHANGED <<txvars, rxvars, ctlvars, clivars, ofvars, lenvars>>

\* ((int)mot) > gMotionAlarm, the sends and the end of the callback.  The
\* second operand is the value read before, kept in a register, or the
\* variable read again: the build decides
side_info_greater ==
    /\ si_pc = "greater"
    /\ \E again \in {si_read, gMotionAlarm} :
         LET buf == [flags |-> {"CODECSIDEINFO"},
                     data |-> BufData(Len(cblog) + 1, 1)]
             c0 == [out |-> <<>>, alive |-> TRUE, exit |-> 0, quota |-> NoLimit,
                    partial |-> p_buf_partial_begin, b1 |-> b1_config_sent,
                    frames |-> i64FramesCnt, emit |-> "none", payload |-> <<>>,
                    ret |-> -1, released |-> <<>>, sent |-> 0]
             c1 == SendToAndroid(c0, <<MotionInFrame>>)
             c2 == SendToAndroid(c1, <<si_mot>>)
             c3 == IF si_read # 0 /\ si_mot > again
                   THEN SendToAndroid(c2, <<MotionAlarm>>)
                   ELSE c2
             c == release_buffer(Emitted(c3, "motion", <<si_mot>>))
         IN /\ txout' = txout \o c.out
            /\ cblog' = Append(cblog, [buf |-> buf, pend |-> p_buf_partial_begin,
                                       b1 |-> b1_config_sent, out |-> c.out,
                                       emit |-> c.emit, payload |-> c.payload,
                                       exit |-> c.exit, ret |-> c.ret,
                                       released |-> c.released,
                                       sent |-> c.sent])
    /\ si_pc' = "idle"
    /\ UNCHANGED <<mode, tx_pc, p_buf_partial_begin, b1_config_sent, gMotionAlarm,
                   i64FramesCnt>>
    /\ UNCHANGED <<si_mot, si_read, hfe_pc, mbx, mby, dm_pc, dm_x, dm_j, max_vxvy,
                   dm_read, dm_seen>>
    /\ UNCHANGED <<rxvars, ctlvars, clivars, ofvars, lenvars>>

NextRace ==
    \/ side_info_begin \/ side_info_nonzero \/ side_info_greater
    \/ receive_mot_alarm
SpecRace == InitCtl /\ [][NextRace]_vars

\* ------------------------------------------ the Raspberry Pi client (video.c)
\* socket(): the lowest descriptor not in use (0, 1 and 2 are the standard ones)
NewFd == CHOOSE fd \in 3..(3 + MaxAttempts) :
            fd \notin cth_open /\ \A g \in 3..(fd - 1) : g \in cth_open

\* fcntl(fd, F_SETFL, flags) on a descriptor whose status flags are old: the
\* new status flags
F_SETFL(old, flags) == flags

\* flags ^ bit
KeepFlags(flags, bit) == flags

FlagsXor(flags, bit) == (flags \ {bit}) \cup ({bit} \ flags)

\* ConnectToHost returns v
CthReturn(v) ==
    /\ cth_pc' = "returned"
    /\ cth_ret' = v

\* the attempt failed and the while loop is evaluated again
CthRetry(how) ==
    /\ cth_last' = how
    /\ UNCHANGED <<cth_pc, cth_ret, bConnected>>

\* one pass of the while loop of ConnectToHost: socket, connect, select
ConnectAttempt ==
    /\ cth_pc = "loop"
    /\ ~bConnected
    /\ iConnectCnt < MaxAttempts
    /\ iConnectCnt' = iConnectCnt + 1
    /\ \/ \* socket() fails
          /\ sfd' = -1
          /\ cth_last' = "socket_error"
          /\ CthReturn(-1)
          /\ UNCHANGED <<cth_open, bConnected>>
       \/ \* connect() fails at once with an errno other than EINPROGRESS
          /\ sfd' = NewFd
          /\ cth_open' = cth_open \cup {NewFd}
          /\ \E e \in {"ECONNREFUSED", "EHOSTUNREACH", "ENETUNREACH"} :
               /\ (e = "ECONNREFUSED") => ~peer_listening
               /\ cth_last' = e
          /\ CthReturn(1)
          /\ UNCHANGED bConnected
       \/ \* connect() returns 0, or select reports the socket writable and
          \* SO_ERROR is 0
          /\ peer_listening
          /\ sfd' = NewFd
          /\ cth_open' = cth_open \cup {NewFd}
          /\ bConnected' = TRUE
          /\ cth_last' \in {"connected_at_once", "connected"}
          /\ UNCHANGED <<cth_pc, cth_ret>>
       \/ \* select: SO_ERROR is ECONNREFUSED or EHOSTUNREACH: close, usleep
          /\ sfd' = NewFd
          /\ UNCHANGED cth_open
          /\ \E e \in {"ECONNREFUSED", "EHOSTUNREACH"} :
               /\ (e = "ECONNREFUSED") => ~peer_listening
               /\ CthRetry(e)
       \/ \* select: any other SO_ERROR
          /\ sfd' = NewFd
          /\ cth_open' = cth_open \cup {NewFd}
          /\ cth_last' = "ETIMEDOUT"
          /\ CthReturn(-1)
          /\ UNCHANGED bConnected
       \/ \* select returns 0 after 1 s: close
          /\ sfd' = NewFd
          /\ UNCHANGED cth_open
          /\ CthRetry("timeout")
       \/ \* select returns -1: no case of the switch, the socket stays open
          /\ sfd' = NewFd
          /\ cth_open' = cth_open \cup {NewFd}
          /\ CthRetry("select_error")
    /\ \* a new socket has no status flag set; fcntl(sfd, F_SETFL, O_NONBLOCK)
       sfd_flags' = IF sfd' = -1 THEN sfd_flags
                    ELSE F_SETFL({}, {"O_NONBLOCK"})
    /\ UNCHANGED <<peer_listening, nFilledLen, cli_emptied, cli_exit>>
    /\ UNCHANGED <<txvars, rxvars, ctlvars, lsnvars, ofvars, motvars, lenvars>>

\* the while condition is false: the code after the loop
ConnectFinish ==
    /\ cth_pc = "loop"
    /\ bConnected \/ iConnectCnt >= MaxAttempts
    /\ iConnectCnt' = IF bConnected THEN iConnectCnt ELSE iConnectCnt + 1
    /\ IF bConnected /\ sfd # -1
       THEN \/ \* flags = fcntl(sfd, F_GETFL); fcntl(sfd, F_SETFL, flags ^ O_NONBLOCK)
               /\ sfd_flags' = F_SETFL(sfd_flags, FlagsXor(sfd_flags, "O_NONBLOCK"))
               /\ CthReturn(sfd)
               /\ UNCHANGED <<cth_open, cli_exit>>
            \/ \* fcntl fails: close, exit(134)
               /\ cth_pc' = "exited"
               /\ cth_open' = cth_open \ {sfd}
               /\ cli_exit' = 134
               /\ UNCHANGED <<cth_ret, sfd_flags>>
       ELSE /\ CthReturn(-1)
            /\ UNCHANGED <<cth_open, cli_exit, sfd_flags>>
    /\ UNCHANGED <<bConnected, sfd, cth_last, peer_listening, nFilledLen, cli_emptied>>
    /\ UNCHANGED <<txvars, rxvars, ctlvars, lsnvars, ofvars, motvars, lenvars>>

\* the peer starts to accept connections
PeerListen ==
    /\ cth_pc = "loop"
    /\ ~peer_listening
    /\ peer_listening' = TRUE
    /\ UNCHANGED <<cth_pc, iConnectCnt, bConnected, sfd, cth_open, cth_ret,
                   cth_last, sfd_flags, nFilledLen, cli_emptied, cli_exit>>
    /\ UNCHANGED <<txvars, rxvars, ctlvars, lsnvars, ofvars, motvars, lenvars>>

\* main: sockfd = ConnectToHost(...); if (sockfd < 0) exit(133)
ConnectFailed ==
    /\ cth_pc = "returned"
    /\ cli_exit = 0
    /\ cth_ret < 0
    /\ cli_exit' = 133
    /\ UNCHANGED <<cth_pc, iConnectCnt, bConnected, sfd, cth_open, cth_ret,
                   cth_last, sfd_flags, peer_listening, nFilledLen, cli_emptied>>
    /\ UNCHANGED <<txvars, rxvars, ctlvars, lsnvars, ofvars, motvars, lenvars>>

\* the value n stored into an OMX_U32: n modulo 2^32, as two 16-bit halves
ToU32(n) ==
    IF n >= 0 THEN [hi |-> (n \div 65536) % 65536, lo |-> n % 65536]
    ELSE [hi |-> 65535 - ((((0 - n) - 1) \div 65536) % 65536),
          lo |-> 65535 - (((0 - n) - 1) % 65536)]

\* u <= 0 for an unsigned u
U32LeqZero(u) == u.hi = 0 /\ u.lo = 0

Range(q) == { q[k] : k \in 1..Len(q) }

\* what recv may return: -1 (error, timeout), 0 (peer closed), or a count;
\* on a descriptor that is not the connected socket only -1
RecvResults ==
    IF (bConnected \/ "accept" \in Range(lsn_calls)) /\ cth_ret = sfd
    THEN {-1, 0, 1, MaxBody} ELSE {-1}

read_into_buffer_and_empty ==
    /\ cth_pc = "returned"
    /\ cli_exit = 0
    /\ cth_ret >= 0
    /\ Len(cli_emptied) < MaxReads
    /\ \E r \in RecvResults :
         /\ nFilledLen' = ToU32(r)
         /\ IF U32LeqZero(nFilledLen')
            THEN cli_exit' = 1 /\ UNCHANGED cli_emptied
            ELSE /\ cli_emptied' = Append(cli_emptied,
                                          [recv |-> r, nFilledLen |-> nFilledLen'])
                 /\ UNCHANGED cli_exit
    /\ UNCHANGED <<cth_pc, iConnectCnt, bConnected, sfd, cth_open, cth_ret,
                   cth_last, sfd_flags, peer_listening>>
    /\ UNCHANGED <<txvars, rxvars, ctlvars, lsnvars, ofvars, motvars, lenvars>>

\* the client was started in connect mode: ConnectToHost is entered
CliStart ==
    /\ cth_pc = "loop" /\ iConnectCnt = 0 /\ bConnected = FALSE /\ sfd = -1
    /\ cth_open = {} /\ cth_ret = -1 /\ cth_last = "none" /\ sfd_flags = {}
    /\ peer_listening \in BOOLEAN
    /\ nFilledLen = [hi |-> 0, lo |-> 0] /\ cli_emptied = <<>> /\ cli_exit = 0
    /\ LsnIdle

InitCli == RawInit /\ RxIdle /\ CliStart
NextCli == ConnectAttempt \/ ConnectFinish \/ PeerListen \/ ConnectFailed
              \/ read_into_buffer_and_empty
SpecCli == InitCli /\ [][NextCli]_vars

\* ------------------------------------ the client in listen mode (video.c)
\* the values given with option -t
TimeoutArgs == {1, 10}

\* main: sockfd = SetupListenSocket(&ip, port, 3, bVerbose)
rcv_timeout == 3

\* main reads its options (-l is among them) and calls SetupListenSocket
getopt_main ==
    /\ lsn_pc = "getopt"
    /\ \/ \E t \in TimeoutArgs : recv_timeout' = t
       \/ UNCHANGED recv_timeout
    /\ lsn_pc' = "socket"
    /\ sfd' = -1
    /\ UNCHANGED <<sockListen, so_rcvtimeo, lsn_calls>>
    /\ UNCHANGED <<cth_pc, iConnectCnt, bConnected, cth_open, cth_ret, cth_last,
                   sfd_flags, peer_listening, nFilledLen, cli_emptied, cli_exit>>
    /\ UNCHANGED <<txvars, rxvars, ctlvars, ofvars, motvars, lenvars>>

\* the number of calls that were interrupted by a signal
Interrupts == Cardinality({ k \in 1..Len(lsn_calls) :
                              lsn_calls[k] \in {"listen:EINTR", "accept:EINTR"} })

\* if (sockListen >= 0) close(sockListen): the descriptors left open
LeaveOpen(open, fd) == open

CloseListen(open, fd) == IF fd >= 0 THEN open \ {fd} ELSE open

\* one system call of SetupListenSocket, or its last two statements
SetupListenSocket ==
    /\ \/ /\ lsn_pc = "socket"
          /\ \/ /\ sockListen' = NewFd
                /\ cth_open' = cth_open \cup {NewFd}
                /\ lsn_calls' = Append(lsn_calls, "socket")
                /\ lsn_pc' = "bind"
             \/ /\ sockListen' = -1
                /\ lsn_calls' = Append(lsn_calls, "socket:-1")
                /\ lsn_pc' = "close"
                /\ UNCHANGED cth_open
          /\ UNCHANGED <<sfd, so_rcvtimeo, cth_pc, cth_ret>>
       \/ /\ lsn_pc = "bind"
          /\ \/ /\ lsn_calls' = Append(lsn_calls, "bind")
                /\ lsn_pc' = "listen"
             \/ /\ lsn_calls' = Append(lsn_calls, "bind:-1")
                /\ lsn_pc' = "close"
          /\ UNCHANGED <<sfd, sockListen, cth_open, so_rcvtimeo, cth_pc, cth_ret>>
       \/ /\ lsn_pc = "listen"
          /\ \/ /\ Interrupts < MaxEintr
                /\ lsn_calls' = Append(lsn_calls, "listen:EINTR")
                /\ UNCHANGED lsn_pc
             \/ /\ lsn_calls' = Append(lsn_calls, "listen:-1")
                /\ lsn_pc' = "close"
             \/ /\ lsn_calls' = Append(lsn_calls, "listen")
                /\ lsn_pc' = "accept"
          /\ UNCHANGED <<sfd, sockListen, cth_open, so_rcvtimeo, cth_pc, cth_ret>>
       \/ /\ lsn_pc = "accept"
          /\ \/ /\ Interrupts < MaxEintr
                /\ lsn_calls' = Append(lsn_calls, "accept:EINTR")
                /\ sfd' = -1
                /\ UNCHANGED <<lsn_pc, cth_open, so_rcvtimeo>>
             \/ /\ lsn_calls' = Append(lsn_calls, "accept:-1")
                /\ sfd' = -1
                /\ lsn_pc' = "close"
                /\ UNCHANGED <<cth_open, so_rcvtimeo>>
             \/ \* a client is accepted; setsockopt SO_RCVTIMEO succeeds or not
                /\ lsn_calls' = Append(lsn_calls, "accept")
                /\ sfd' = NewFd
                /\ cth_open' = cth_open \cup {NewFd}
                /\ so_rcvtimeo' \in {rcv_timeout, so_rcvtimeo}
                /\ lsn_pc' = "close"
          /\ UNCHANGED <<sockListen, cth_pc, cth_ret>>
       \/ /\ lsn_pc = "close"
          /\ cth_open' = CloseListen(cth_open, sockListen)
          /\ lsn_calls' = IF sockListen >= 0 THEN Append(lsn_calls, "close")
                          ELSE lsn_calls
          /\ lsn_pc' = "done"
          /\ CthReturn(sfd)
          /\ UNCHANGED <<sfd, sockListen, so_rcvtimeo>>
    /\ UNCHANGED <<recv_timeout, iConnectCnt, bConnected, cth_last, sfd_flags,
                   peer_listening, nFilledLen, cli_emptied, cli_exit>>
    /\ UNCHANGED <<txvars, rxvars, ctlvars, ofvars, motvars, lenvars>>

\* the client was started in listen mode
CliListenStart ==
    /\ cth_pc = "idle" /\ iConnectCnt = 0 /\ bConnected = FALSE /\ sfd = -1
    /\ cth_open = {} /\ cth_ret = -1 /\ cth_last = "none" /\ sfd_flags = {}
    /\ peer_listening = FALSE
    /\ nFilledLen = [hi |-> 0, lo |-> 0] /\ cli_emptied = <<>> /\ cli_exit = 0
    /\ recv_timeout = DefaultRecvTimeout /\ lsn_pc = "getopt" /\ sockListen = -1
    /\ so_rcvtimeo = 0 /\ lsn_calls = <<>>

InitLsn == RawInit /\ RxIdle /\ CliListenStart
NextLsn == getopt_main \/ SetupListenSocket \/ ConnectFailed
              \/ read_into_buffer_and_empty
SpecLsn == InitLsn /\ [][NextLsn]_vars

\* ------------------------------- frame lengths between sender and receiver
\* encoder_output->buffer_size = 1024*1024
buffer_size == 1048576

\* lengths of an encoder buffer: the least, the greatest, and the two around
\* the receiver's limit less a full buffer
BufferLengths ==
    {1, TCPIP_BUFFER_SIZE - buffer_size, TCPIP_BUFFER_SIZE - buffer_size + 1,
     buffer_size}

\* the android callback on a buffer of picture data, its lengths alone: a
\* buffer with flags 0 becomes the partial; one with FRAME_END sends
\* all_length (with a partial) or buffer->length as the prefix
encoder_buffer_lengths ==
    /\ len_verdict \in {"none", "accepted"}
    /\ \E length \in BufferLengths :
         \/ /\ partial_length = -1
            /\ partial_length' = length
            /\ UNCHANGED <<length_prefix, len_verdict>>
         \/ /\ partial_length # -1
            /\ length_prefix' = LE32(partial_length + length)
            /\ partial_length' = -1
            /\ len_verdict' = "wait"
         \/ /\ partial_length = -1
            /\ length_prefix' = LE32(length)
            /\ len_verdict' = "wait"
            /\ UNCHANGED partial_length
    /\ UNCHANGED iFrameLen
    /\ UNCHANGED <<txvars, rxvars, ctlvars, clivars, ofvars, motvars>>

\* DecoderThread.run: iFrameLen = byteArrayToInt(buffer);
\* if (iFrameLen > TCPIP_BUFFER_SIZE) return
frame_length_check ==
    /\ len_verdict = "wait"
    /\ iFrameLen' = byteArrayToInt(length_prefix)
    /\ len_verdict' = IF iFrameLen' > TCPIP_BUFFER_SIZE THEN "oversize"
                      ELSE "accepted"
    /\ length_prefix' = <<>>
    /\ UNCHANGED partial_length
    /\ UNCHANGED <<txvars, rxvars, ctlvars, clivars, ofvars, motvars>>

InitLen ==
    /\ Opened /\ CtlInit /\ CliIdle /\ RxIdle /\ MotIdle /\ LenIdle
    /\ mode = "android" /\ tx_pc = "running"
    /\ p_buf_partial_begin = NULL /\ b1_config_sent = 0 /\ gMotionAlarm = 0
    /\ i64FramesCnt = 0 /\ txout = <<>> /\ cblog = <<>>
NextLen == encoder_buffer_lengths \/ frame_length_check
SpecLen == InitLen /\ [][NextLen]_vars

\* ------------------------------------------------ the sender's DetectMotion
\* a value converted to signed char, to unsigned char
ToSChar(v) == ((v + 128) % 256) - 128
ToUChar(v) == v % 256

\* (int) sqrt(n) for 0 <= n < 65536
isqrt(n) == CHOOSE r \in 0..255 : r * r <= n /\ (r + 1) * (r + 1) > n

\* #define MAX(a,b) (((a)>(b))?(a):(b))
Latest(a, b) == b

MAX(a, b) == IF a > b THEN a ELSE b

\* the (x_vector, y_vector) a cell of the side information may hold
Vectors == { <<0, 0>>, <<-128, -128>>, <<3, -4>>, <<127, 1>> }

\* width/16 and height/16, one more when there is a remainder
Macroblocks(pixels) == (pixels \div 16) + (IF pixels % 16 # 0 THEN 1 ELSE 0)

\* widths and heights of up to MaxMb macroblocks
Pixels == { 16 * k : k \in 1..MaxMb } \cup { 16 * k - 15 : k \in 1..MaxMb }

\* one pass of the inner loop of DetectMotion
DetectMotion_loop ==
    /\ dm_pc = "loop"
    /\ dm_j < mby
    /\ \E v \in Vectors :
         LET vx == ToSChar(0 - v[1])
             vy == ToSChar(v[2])
         IN /\ max_vxvy' = MAX(max_vxvy, ToUChar(isqrt(vx * vx + vy * vy)))
            /\ dm_seen' = dm_seen \cup {v}
    /\ dm_read' = dm_read \cup {dm_x + (mbx + 1) * dm_j}
    /\ IF dm_x + 1 < mbx
       THEN dm_x' = dm_x + 1 /\ UNCHANGED dm_j
       ELSE dm_x' = 0 /\ dm_j' = dm_j + 1
    /\ UNCHANGED <<mbx, mby, dm_pc, cbvars>>
    /\ UNCHANGED <<txvars, rxvars, ctlvars, clivars, ofvars, lenvars>>

\* j == mby: return max_vxvy
DetectMotion_return ==
    /\ dm_pc = "loop"
    /\ dm_j >= mby
    /\ dm_pc' = "returned"
    /\ UNCHANGED <<mbx, mby, dm_x, dm_j, max_vxvy, dm_read, dm_seen, cbvars>>
    /\ UNCHANGED <<txvars, rxvars, ctlvars, clivars, ofvars, lenvars>>

\* DetectMotion is entered for a frame of w x h pixels
MotStart ==
    /\ \E w \in Pixels, h \in Pixels :
         mbx = Macroblocks(w) /\ mby = Macroblocks(h)
    /\ dm_pc = "loop" /\ dm_x = 0 /\ dm_j = 0
    /\ max_vxvy = 0 /\ dm_read = {} /\ dm_seen = {}
    /\ CbIdle

InitMot ==
    /\ Opened /\ CtlInit /\ CliIdle /\ RxIdle /\ LenIdle
    /\ mode = "android_motion" /\ tx_pc = "running"
    /\ p_buf_partial_begin = NULL /\ b1_config_sent = 0 /\ gMotionAlarm = 0
    /\ i64FramesCnt = 0 /\ txout = <<>> /\ cblog = <<>>
    /\ MotStart
NextMot == DetectMotion_loop \/ DetectMotion_return
SpecMot == InitMot /\ [][NextMot]_vars

\* --------------------------------- the sender opens its output (open_filename)
\* `int sfd` has no initialiser: what it may hold when nothing was assigned
Garbage == {-1, 1, 7}

\* the descriptors of the sender when open_filename is entered
StdFds == {0, 1, 2}

\* fdopen(fd, "w"): NULL unless fd is an open descriptor
fdopen(fd, open) == IF fd \in open THEN "open" ELSE "NULL"

\* k calls interrupted by a signal
Interrupted(call, k) == [i \in 1..k |-> call]

\* the ways through the branch `if (pState->netListen)`
ListenOutcomes ==
    { [calls |-> <<"socket:-1">>, sfd |-> g, open |-> StdFds,
       connected |-> FALSE] : g \in Garbage }
    \cup
    { [calls |-> <<"socket", "bind:-1", "close">>, sfd |-> g, open |-> StdFds,
       connected |-> FALSE] : g \in Garbage }
    \cup
    { [calls |-> <<"socket", "bind">> \o Interrupted("listen:EINTR", k)
                   \o <<"listen:-1", "close">>,
       sfd |-> g, open |-> StdFds, connected |-> FALSE] :
         g \in Garbage, k \in 0..MaxEintr }
    \cup
    { [calls |-> <<"socket", "bind">> \o Interrupted("listen:EINTR", k)
                   \o <<"listen">> \o Interrupted("accept:EINTR", j)
                   \o <<"accept:-1", "close">>,
       sfd |-> -1, open |-> StdFds, connected |-> FALSE] :
         k \in 0..MaxEintr, j \in 0..MaxEintr }
    \cup
    { [calls |-> <<"socket", "bind">> \o Interrupted("listen:EINTR", k)
                   \o <<"listen">> \o Interrupted("accept:EINTR", j)
                   \o <<"accept", "setsockopt", "close">>,
       sfd |-> 4, open |-> StdFds \cup {4}, connected |-> TRUE] :
         k \in 0..MaxEintr, j \in 0..MaxEintr }

\* the ways through the else branch: socket, connect repeated while EINTR
ConnectErrors == {"ECONNREFUSED", "EHOSTUNREACH", "ETIMEDOUT"}

ConnectOutcomes ==
    { [calls |-> <<"socket:-1">>, sfd |-> -1, open |-> StdFds,
       connected |-> FALSE] }
    \cup
    { [calls |-> <<"socket">> \o Interrupted("connect:EINTR", k) \o <<e>>,
       sfd |-> 3, open |-> StdFds \cup {3}, connected |-> FALSE] :
         k \in 0..MaxEintr, e \in ConnectErrors }
    \cup
    { [calls |-> <<"socket">> \o Interrupted("connect:EINTR", k)
                   \o <<"connect">>,
       sfd |-> 3, open |-> StdFds \cup {3}, connected |-> TRUE] :
         k \in 0..MaxEintr }

\* main: file_handle = open_filename(&state, state.filename, &sockFD) for a
\* tcp:// name; exit(1) when it is NULL
open_filename ==
    /\ tx_pc = "open_filename"
    /\ \E o \in (IF netListen THEN ListenOutcomes ELSE ConnectOutcomes) :
         /\ of_calls' = o.calls
         /\ sockFD' = o.sfd
         /\ sock_connected' = o.connected
         /\ file_handle' = fdopen(o.sfd, o.open)
         /\ tx_pc' = IF file_handle' = "NULL" THEN "exited" ELSE "running"
    /\ UNCHANGED <<mode, p_buf_partial_begin, b1_config_sent, gMotionAlarm,
                   i64FramesCnt, txout, cblog, netListen>>
    /\ UNCHANGED <<rxvars, ctlvars, clivars, motvars, lenvars>>

\* the encoder delivers a buffer; send fails on a socket that is not connected
TxCallbackDial ==
    /\ encoder_buffer_callback(EncoderBuffers(Len(cblog) + 1),
                               IF sock_connected THEN {2, NoLimit} ELSE {0})
    /\ UNCHANGED <<rxvars, ctlvars, clivars, ofvars, motvars, lenvars>>

InitDial ==
    /\ CtlInit /\ CliIdle /\ RxIdle /\ MotIdle /\ LenIdle
    /\ mode = "android"
    /\ tx_pc = "open_filename"
    /\ p_buf_partial_begin = NULL /\ b1_config_sent = 0 /\ gMotionAlarm = 0
    /\ i64FramesCnt = 0 /\ txout = <<>> /\ cblog = <<>>
    /\ netListen \in BOOLEAN /\ sockFD = 0 /\ file_handle = "NULL"
    /\ sock_connected = FALSE /\ of_calls = <<>>
NextDial == open_filename \/ TxCallbackDial
SpecDial == InitDial /\ [][NextDial]_vars

\* ===================================================== properties of the sender
\* what follows reads the history cblog: entry i is the i-th callback, with the
\* buffer it got (buf), the partial pending before it (pend), the bytes it
\* wrote (out) and the exit code of the process (exit, 0 = still running)

\* the partial pending after the i-th callback
PendAfter(i) == IF i < Len(cblog) THEN cblog[i + 1].pend ELSE p_buf_partial_begin

\* a buffer of picture data: it has bytes and is neither CONFIG nor side info
IsVideo(b) ==
    Len(b.data) > 0 /\ "CONFIG" \notin b.flags /\ "CODECSIDEINFO" \notin b.flags

\* the first chunk of a multi-chunk picture: picture data without FRAME_END
FirstChunk(b) == IsVideo(b) /\ "FRAME_END" \notin b.flags

\* the last (or only) chunk of a picture
FrameEndBuf(b) == IsVideo(b) /\ "FRAME_END" \in b.flags

\* the bytes of one picture frame on the socket in the running mode
PictureWire(payload) ==
    (IF mode = "android_motion" THEN <<RegularFrame>> ELSE <<>>)
        \o LE32(Len(payload)) \o payload

\* the bytes of the partial pending before callback e
PendData(e) == IF e.pend = NULL THEN <<>> ELSE e.pend[1].data

\* C2: a first-chunk buffer A followed by a FRAME_END buffer B makes the
\* sender write exactly one frame, with length |A|+|B| and payload A then B
C2_Reassembly ==
    \A i \in 2..Len(cblog) :
        LET a == cblog[i - 1]
            b == cblog[i]
        IN (FirstChunk(a.buf) /\ a.pend = NULL /\ a.exit = 0
            /\ FrameEndBuf(b.buf) /\ b.exit = 0)
           => /\ a.out = <<>>
              /\ b.out = PictureWire(a.buf.data \o b.buf.data)

\* C3: at most one buffer is the pending partial; a partial becomes pending
\* only when a first-chunk buffer is accepted, and none is pending after a
\* FRAME_END video buffer has been processed
C3_SinglePartial ==
    /\ Len(p_buf_partial_begin) <= 1
    /\ \A i \in 1..Len(cblog) :
          LET e == cblog[i] IN
          /\ Len(e.pend) <= 1
          /\ (e.pend = NULL /\ PendAfter(i) # NULL)
                => (PendAfter(i) = <<e.buf>> /\ FirstChunk(e.buf))
          /\ (e.pend # NULL /\ PendAfter(i) # NULL) => PendAfter(i) = e.pend
          /\ (FrameEndBuf(e.buf) /\ e.exit = 0) => PendAfter(i) = NULL

\* C3 witness: a pending partial was consumed by a FRAME_END buffer
C3_Witness ==
    /\ Len(cblog) >= 2
    /\ cblog[Len(cblog)].pend # NULL
    /\ FrameEndBuf(cblog[Len(cblog)].buf)
    /\ cblog[Len(cblog)].exit = 0
    /\ p_buf_partial_begin = NULL

\* C4: a second first-chunk buffer while a partial is pending is a fatal
\* fault: the process exits and the callback writes nothing
C4_DoubleBegin ==
    \A i \in 1..Len(cblog) :
        LET e == cblog[i] IN
        (FirstChunk(e.buf) /\ e.pend # NULL) => (e.exit = 12 /\ e.out = <<>>)

\* C5: every first chunk of picture data, with no flags or with FRAME_START
\* (and KEYFRAME), starts an accumulation, and the frame written at the next
\* FRAME_END buffer begins with its bytes
C5_NoSilentDrop ==
    \A i \in 1..Len(cblog) :
        LET e == cblog[i] IN
        (FirstChunk(e.buf) /\ e.pend = NULL /\ e.exit = 0)
        => /\ PendAfter(i) = <<e.buf>>
           /\ (i < Len(cblog) /\ FrameEndBuf(cblog[i + 1].buf)
                              /\ cblog[i + 1].exit = 0)
                 => SubSeq(cblog[i + 1].payload, 1, Len(e.buf.data)) = e.buf.data

\* the callback took the buffer as the end of a picture: it has bytes, has
\* FRAME_END, is not side info and did not go the CONFIG way
AcceptedFrameEnd(e) ==
    /\ Len(e.buf.data) > 0
    /\ "FRAME_END" \in e.buf.flags
    /\ "CODECSIDEINFO" \notin e.buf.flags
    /\ ~("CONFIG" \in e.buf.flags /\ (mode = "android_motion" => e.b1 < 2))

\* the callbacks so far that ran to their end
Completed == {i \in 1..Len(cblog) : cblog[i].exit = 0}

\* C6: a picture frame is written exactly when a FRAME_END buffer is accepted:
\* a callback on picture data writes one whole frame if the buffer has
\* FRAME_END and nothing otherwise, and the frames counted are the FRAME_END
\* buffers accepted
C6_EmitOnFrameEnd ==
    /\ \A i \in Completed :
          LET e == cblog[i] IN
          /\ IsVideo(e.buf) =>
                e.out = (IF "FRAME_END" \in e.buf.flags
                         THEN PictureWire(PendData(e) \o e.buf.data)
                         ELSE <<>>)
          /\ AcceptedFrameEnd(e) => e.out = PictureWire(PendData(e) \o e.buf.data)
          /\ "FRAME_END" \notin e.buf.flags => e.emit # "picture"
    /\ i64FramesCnt = Cardinality({i \in Completed : AcceptedFrameEnd(cblog[i])})
    /\ i64FramesCnt = Cardinality({i \in Completed : cblog[i].emit = "picture"})

\* C6 witness: two chunks were written as one frame by the FRAME_END callback
\* and the first chunk's callback wrote nothing
C6_Witness ==
    /\ Len(cblog) >= 2
    /\ cblog[Len(cblog)].pend # NULL
    /\ cblog[Len(cblog)].emit = "picture"
    /\ cblog[Len(cblog) - 1].out = <<>>
    /\ i64FramesCnt >= 1

\* =================================================== properties of the receiver
\* read_exact is running for a payload (not for a length prefix)
ReadingPayload == rx_pc \in {"sps_body", "body"}

\* C7: for every length prefix read, the SPS/PPS ones included, a length above
\* TCPIP_BUFFER_SIZE makes the receiver stop before it starts to read the
\* payload: read_exact never runs for a payload longer than the maximum
C7_OversizeRejected ==
    ReadingPayload => rxLen <= TCPIP_BUFFER_SIZE

\* the unsigned value of the last interpreted prefix is 2^31 or more
PrefixHighBit == rxPrefix # <<>> /\ rxPrefix[4] >= 128

\* C8: in the main loop a length prefix of 2^31 or more, read as unsigned, is
\* above the maximum and is rejected as oversize (return with "iFrameLen"):
\* read_exact is never entered for its payload
C8_UnsignedLength ==
    (sps_i = 2 /\ rx_pc # "sps_body" /\ PrefixHighBit
        /\ rxFault # "dequeueInputBuffer")
        => (rx_pc = "returned" /\ rxFault = "iFrameLen")

\* C10: however the transport splits the bytes over inputStream.read calls,
\* read_exact has put the bytes read so far at buffer[0..offset), they are the
\* bytes of the stream that follow the position where read_exact was called,
\* offset + iToRead stays cnt, so that on return (iToRead = 0) buffer[0..cnt)
\* holds the next cnt bytes; and every unit queued to the decoder is the
\* stretch of the stream that a single contiguous read would have given
C10_ReadExact ==
    /\ rx_pc \in Reading =>
          /\ offset + iToRead = rdCnt
          /\ offset >= 0
          /\ rxpos = rdStart + offset
          /\ \A i \in 1..offset : BufAt(buffer, i) = txout[rdStart + i]
    /\ \A k \in 1..Len(decq) :
          decq[k].data = SubSeq(txout, decq[k].at + 1, decq[k].at + Len(decq[k].data))

\* C10 witness: a payload of two or more bytes arrived in as many reads as it
\* has bytes, read_exact is about to return true, and a unit read before was
\* queued
C10_Witness ==
    /\ rx_pc = "body"
    /\ iToRead = 0
    /\ rdCnt >= 2
    /\ rdChunks = rdCnt
    /\ Len(decq) >= 2

\* ======================================= properties of sender and receiver together
\* the callbacks that wrote a whole config or picture frame, in order
SentFrames == SelectSeq(cblog, LAMBDA e : e.emit \in {"config", "picture"})

\* C1: every frame the android callback writes reaches the decoder with the
\* same payload bytes and the same kind (config or picture): the k-th unit
\* queued is the k-th frame written
C1_RoundTrip ==
    mode = "android" =>
        \A k \in 1..Len(decq) :
            /\ k <= Len(SentFrames)
            /\ decq[k].data = SentFrames[k].payload
            /\ (decq[k].flags = "BUFFER_FLAG_CODEC_CONFIG")
                   <=> (SentFrames[k].emit = "config")

RECURSIVE WireLen(_)
\* the number of bytes the first n callbacks wrote
WireLen(n) == IF n = 0 THEN 0 ELSE WireLen(n - 1) + Len(cblog[n].out)

\* the index in cblog of the k-th frame written
RECURSIVE FrameIndex(_, _)
FrameIndex(k, from) ==
    IF cblog[from].emit \in {"config", "picture"}
    THEN (IF k = 1 THEN from ELSE FrameIndex(k - 1, from + 1))
    ELSE FrameIndex(k, from + 1)

\* C9: the socket carries the messages of the callbacks in their order, each
\* contiguous; the receiver queues the frames in that order with the same
\* bytes, and once it has read past the end of the k-th frame and asks for
\* more it has queued that frame
C9_Ordering ==
    /\ Len(txout) = WireLen(Len(cblog))
    /\ \A n \in 1..Len(cblog) :
          SubSeq(txout, WireLen(n - 1) + 1, WireLen(n)) = cblog[n].out
    /\ \A k \in 1..Len(decq) :
          k <= Len(SentFrames) /\ decq[k].data = SentFrames[k].payload
    /\ \A k \in 1..Len(SentFrames) :
          (rx_pc \in Reading /\ iToRead > 0 /\ rxpos >= WireLen(FrameIndex(k, 1)))
              => Len(decq) >= k

\* ================================================ properties of the transport use
\* C11: a send that takes only part of a block is followed by further sends
\* of the remainder; the process exits on a send only when that send returned
\* zero or an error (ret = 0 stands for both)
C11_SendAll ==
    \A i \in 1..Len(cblog) :
        cblog[i].exit \in {1259, 1647} => cblog[i].ret = 0

\* C16: every video unit the raw_tcp callback transmits is on the wire as a
\* 4-byte length L followed by exactly the L payload bytes, without a tag
C16_RawWire ==
    mode = "raw_tcp" =>
        \A i \in 1..Len(cblog) :
            cblog[i].emit = "raw" =>
                cblog[i].out = LE32(Len(cblog[i].buf.data)) \o cblog[i].buf.data

\* ====================================== properties of the receiver's fault paths
\* the number of whole frames (length prefix and all its payload) in the
\* stream between position p and the last byte the receiver has read
RECURSIVE CompleteFrames(_)
CompleteFrames(p) ==
    IF p + 4 > rxpos THEN 0
    ELSE LET L == byteArrayToInt(SubSeq(txout, p + 1, p + 4))
         IN IF L < 0 \/ p + 4 + L > rxpos THEN 0
            ELSE 1 + CompleteFrames(p + 4 + L)

\* C13: a unit is queued to the decoder only after all L bytes announced by
\* its prefix were read: every queued unit is the L bytes after its prefix,
\* and never more units are queued than whole frames were read; when the
\* stream ends or fails after the prefix or a part of the payload, nothing of
\* that frame is queued
C13_NoPartialFrame ==
    /\ \A k \in 1..Len(decq) :
          LET L == byteArrayToInt(SubSeq(txout, decq[k].at - 3, decq[k].at))
          IN /\ decq[k].at >= 4
             /\ decq[k].at + L <= rxpos
             /\ decq[k].data = SubSeq(txout, decq[k].at + 1, decq[k].at + L)
    /\ Len(decq) <= CompleteFrames(0)

\* C13 witness: the stream failed after a part of a payload was read, in the
\* main loop, and run() ended
C13_Witness ==
    /\ rx_pc = "finished"
    /\ rxFault = "read_exact"
    /\ sps_i = 2
    /\ rdCnt = rxLen
    /\ offset > 0
    /\ iToRead > 0

\* C14: when run() has ended, on whatever path, socket and inputStream are
\* released
C14_SocketReleased ==
    rx_pc \in {"finished", "returned"} =>
        (socket = "null" /\ inputStream = "null")

\* C15: in every android* mode every frame written to the socket, config
\* frames included, is a 1-byte kind tag, then the 4-byte length, then the
\* payload
C15_TaggedWire ==
    mode \in Modes =>
        \A i \in 1..Len(cblog) :
            LET e == cblog[i] IN
            e.emit \in {"config", "picture"} =>
                /\ Len(e.out) = 5 + Len(e.payload)
                /\ e.out[1] \in {RegularFrame, MotionInFrame, MotionAlarm}
                /\ SubSeq(e.out, 2, 5) = LE32(Len(e.payload))
                /\ SubSeq(e.out, 6, Len(e.out)) = e.payload

\* ============================================ properties of the control thread
\* v is the text of an integer: digits only, at least one
IntegerText(v) == v # <<>> /\ \A i \in 1..Len(v) : v[i] \in DOMAIN DigitVal

\* the text between the "=" that ends key and the final "\n" of line
ValueOf(key, line) == SubSeq(line, Len(key) + 1, Len(line) - 1)

\* line is "<key>=<integer>\n"
NumberLine(key, line) ==
    strncmp0(key, line) /\ line[Len(line)] = "\n" /\ IntegerText(ValueOf(key, line))

\* the control thread processed one more line in this step
LineRead == ctl_cnt' = ctl_cnt + 1

\* C17: for a line "iso=<integer>\n" receive_commands makes exactly one ISO
\* call with that integer, writes nothing to the data socket and leaves the
\* pending partial and the motion toggles as they are
C17_IsoApplied ==
    [][(LineRead /\ NumberLine(K_iso, ctl_last'))
        => /\ cam_calls' = Append(cam_calls,
                 [fn |-> "raspicamcontrol_set_ISO",
                  arg |-> ScanDigits(ValueOf(K_iso, ctl_last'), 0)])
           /\ UNCHANGED <<txout, p_buf_partial_begin, gMotionAlarm, inlineVectors>>
      ]_vars

\* C17 witness: "iso=8\n" was the last line read, the last call is the ISO
\* call with 8, a partial is pending and a frame is on the socket
C17_Witness ==
    /\ ctl_last = K_iso \o <<"8", "\n">>
    /\ cam_calls # <<>>
    /\ cam_calls[Len(cam_calls)] = [fn |-> "raspicamcontrol_set_ISO", arg |-> 8]
    /\ p_buf_partial_begin # NULL
    /\ txout # <<>>

\* the letters my_raspicamcontrol_zoom_in_zoom_out acts on
Directions == {"l", "r", "u", "d", "i", "o", "R"}

\* line is a well-formed command for a known key
WellFormed(line) ==
    \/ \E key \in {K_iso, K_ss, K_stat, K_motion, K_mot_alarm} : NumberLine(key, line)
    \/ /\ strncmp0(K_move, line)
       /\ Len(line) = 7
       /\ line[6] \in Directions

\* C18: a malformed line (unknown key, or a known key with a missing or
\* non-numeric value) causes no call to a collaborator and changes no toggle
C18_MalformedIgnored ==
    [][(LineRead /\ ~WellFormed(ctl_last'))
        => UNCHANGED <<cam_calls, runTimeShowStat, gMotionAlarm, inlineVectors>>
      ]_vars

\* ======================================= properties of the Raspberry Pi client
\* C12: every recv that returns 0 or -1 terminates the process, and the
\* buffer of such a read is never passed to OMX_EmptyThisBuffer
C12_RecvFaultFatal ==
    \A k \in 1..Len(cli_emptied) : cli_emptied[k].recv > 0

\* C19: an attempt that ended with ECONNREFUSED or EHOSTUNREACH or timed out
\* is followed by a new attempt: while attempts are left ConnectToHost has
\* not returned, and the socket of the failed attempt is closed
C19_ConnectRetry ==
    (cth_last \in {"ECONNREFUSED", "EHOSTUNREACH", "timeout"}
        /\ iConnectCnt < MaxAttempts)
        => (cth_pc = "loop" /\ sfd \notin cth_open)

\* C20: ConnectToHost makes at most the limit of attempts (the loop counter
\* ends one above it), and when no attempt connected it returns -1
C20_BoundedConnect ==
    /\ iConnectCnt <= MaxAttempts + 1
    /\ (cth_pc = "returned" /\ ~bConnected) => cth_ret = -1

\* the connection errors on which ConnectToHost gives up (neither refused,
\* unreachable, in progress, nor the 1 s timeout of select)
AbortErrors == {"ENETUNREACH", "ETIMEDOUT"}

\* C21: when an attempt ends with an error other than refused, unreachable,
\* in-progress or timeout, ConnectToHost returns a negative result (which
\* main turns into exit 133), and every recv of the data path is made on the
\* connected socket
C21_ConnectAbort ==
    /\ (cth_pc = "returned" /\ cth_last \in AbortErrors) => cth_ret < 0
    /\ (Len(cli_emptied) > 0 \/ cli_exit = 1) => (bConnected /\ cth_ret = sfd)

\* ConnectToHost has returned the descriptor of a connected socket
ReturnedConnected == cth_pc = "returned" /\ bConnected /\ cth_ret = sfd

\* C22: a connected descriptor returned by ConnectToHost is in blocking mode
\* (O_NONBLOCK is not among its status flags), whether connect() succeeded at
\* once or the connection completed during select
C22_Blocking == ReturnedConnected => "O_NONBLOCK" \notin sfd_flags

C22_Witness ==
    /\ ReturnedConnected
    /\ cth_last = "connected"
    /\ iConnectCnt > 1
    /\ "O_NONBLOCK" \notin sfd_flags

\* C23: in listen mode the receive timeout set on the accepted socket is the
\* value of option -t, and 3 seconds when the option was not given
C23_ConfiguredTimeout ==
    so_rcvtimeo # 0 => so_rcvtimeo = recv_timeout

\* the calls of SetupListenSocket that accepted a connection
Accepted == { k \in 1..Len(lsn_calls) : lsn_calls[k] = "accept" }

\* an interrupted listen or accept is followed by the same call
RetriedAcrossEINTR ==
    \A k \in 1..Len(lsn_calls) :
        /\ lsn_calls[k] = "listen:EINTR" =>
              IF k < Len(lsn_calls)
              THEN lsn_calls[k + 1] \in {"listen:EINTR", "listen", "listen:-1"}
              ELSE lsn_pc = "listen"
        /\ lsn_calls[k] = "accept:EINTR" =>
              IF k < Len(lsn_calls)
              THEN lsn_calls[k + 1] \in {"accept:EINTR", "accept", "accept:-1"}
              ELSE lsn_pc = "accept"

\* C24: SetupListenSocket repeats an interrupted listen or accept, accepts at
\* most one connection, has closed the listening socket when it returns, and
\* returns the accepted descriptor, or -1 when socket, bind, listen or accept
\* failed
C24_SingleClient ==
    /\ RetriedAcrossEINTR
    /\ Cardinality(Accepted) <= 1
    /\ lsn_pc = "done" =>
          /\ sockListen \notin cth_open
          /\ IF Accepted # {}
             THEN cth_ret = sfd /\ cth_ret >= 0 /\ cth_open = {cth_ret}
             ELSE cth_ret = -1 /\ cth_open = {}

C24_Witness ==
    /\ lsn_pc = "done"
    /\ Accepted # {}
    /\ "listen:EINTR" \in Range(lsn_calls)
    /\ "accept:EINTR" \in Range(lsn_calls)
    /\ cth_ret = sfd /\ sockListen >= 0 /\ sockListen \notin cth_open

\* the dial ended with the connection refused or the peer unreachable
DialRefused ==
    of_calls # <<>> /\ of_calls[Len(of_calls)] \in {"ECONNREFUSED", "EHOSTUNREACH"}

\* C25: in connect mode a refused or unreachable dial is tried again (it is
\* not the sender's last connect), and the encoder callbacks run only when
\* the socket is connected
C25_SenderDial ==
    ~netListen =>
        /\ ~(tx_pc # "open_filename" /\ DialRefused)
        /\ (tx_pc = "running" \/ cblog # <<>>) => sock_connected

\* the magnitude of a motion vector, rounded down
Magnitude(v) == isqrt(v[1] * v[1] + v[2] * v[2])

\* the cells of the macroblocks of a frame, rows of mbx + 1 cells
MacroblockCells == { x + (mbx + 1) * j : x \in 0..(mbx - 1), j \in 0..(mby - 1) }

\* what DetectMotion returned: the largest magnitude among the vectors of
\* all mbx * mby macroblocks, a value of 0..181
ReturnsMaximum ==
    /\ dm_read = MacroblockCells
    /\ Cardinality(dm_read) = mbx * mby
    /\ max_vxvy \in 0..181
    /\ \A v \in dm_seen : Magnitude(v) <= max_vxvy
    /\ (dm_seen # {}) => \E v \in dm_seen : Magnitude(v) = max_vxvy

\* C26 as stated: DetectMotion returns the maximum over all macroblocks of
\* the integer part of sqrt(x_vector^2 + y_vector^2), a value of 0..181, and
\* every cell it reads lies in an array of mbx * (mby + 1) cells
C26_DetectMotion ==
    /\ dm_pc = "returned" => ReturnsMaximum
    /\ \A i \in dm_read : i < mbx * (mby + 1)

\* C26 amended: the same, the array being one of (mbx + 1) * mby cells (mby
\* rows of mbx + 1 cells)
C26_DetectMotionRows ==
    /\ dm_pc = "returned" => ReturnsMaximum
    /\ \A i \in dm_read : i < (mbx + 1) * mby

C26_Witness ==
    /\ dm_pc = "returned"
    /\ mby > mbx + 1
    /\ max_vxvy = 181
    /\ <<3, -4>> \in dm_seen
    /\ \E i \in dm_read : i >= mbx * (mby + 1)

\* a callback has just run on a side-info buffer that holds data
SideInfoDelivered ==
    /\ Len(cblog') = Len(cblog) + 1
    /\ "CODECSIDEINFO" \in cblog'[Len(cblog')].buf.flags
    /\ cblog'[Len(cblog')].buf.data # <<>>

ReleasedIn(i, which) ==
    Cardinality({ n \in 1..Len(cblog[i].released) : cblog[i].released[n] = which })

\* the buffer of the i-th callback became the pending partial
BecamePartial(i) == cblog[i].pend = NULL /\ PendAfter(i) # NULL

\* C28: every buffer delivered to an android* callback that returned is the
\* pending partial (for the callback that stored it, released by the callback
\* that completes the frame) or was released once by its callback, and every
\* release is paired with a buffer sent to the port
C28_NoBufferLeak ==
    \A i \in 1..Len(cblog) :
        cblog[i].exit = 0 =>
            /\ ReleasedIn(i, "buffer") = (IF BecamePartial(i) THEN 0 ELSE 1)
            /\ ReleasedIn(i, "p_buf_partial_begin")
                  = (IF cblog[i].pend # NULL /\ PendAfter(i) = NULL THEN 1 ELSE 0)
            /\ cblog[i].sent = Len(cblog[i].released)

\* C29: the receiver accepts the length of every frame the sender emits, a
\* frame of two encoder buffers of up to 1 MiB each included: no frame length
\* is rejected as greater than TCPIP_BUFFER_SIZE
C29_FrameFits == len_verdict # "oversize"

\* receive_commands has just handled a "motion=" line
MotionLineHandled == ctl_cnt' = ctl_cnt + 1 /\ strncmp0(K_motion, ctl_last')

SentAsConfig(i) ==
    LET e == cblog[i]
        frame == LE32(Len(e.buf.data)) \o e.buf.data
    IN /\ "CONFIG" \in e.buf.flags
       /\ e.out # <<>>
       /\ Len(e.out) <= Len(frame)
       /\ e.out = SubSeq(frame, 1, Len(e.out))

\* the CONFIG buffers with data delivered before the i-th callback
ConfigBefore(i) ==
    { j \in 1..(i - 1) : "CONFIG" \in cblog[j].buf.flags /\ cblog[j].buf.data # <<>> }

\* C31: in android_motion mode at most two callbacks send a config frame
\* (4 length bytes and the payload, without a tag), and no CONFIG buffer
\* delivered after two earlier CONFIG buffers is sent as a config frame
C31_ConfigTwice ==
    mode = "android_motion" =>
        /\ Cardinality({ i \in 1..Len(cblog) : SentAsConfig(i) }) <= 2
        /\ \A i \in 1..Len(cblog) :
              Cardinality(ConfigBefore(i)) >= 2 => ~SentAsConfig(i)

C31_Witness ==
    /\ mode = "android_motion"
    /\ Len(cblog) >= 3
    /\ SentAsConfig(1) /\ cblog[1].emit = "config"
    /\ SentAsConfig(2) /\ cblog[2].emit = "config"
    /\ cblog[3].buf.flags = {"CONFIG", "FRAME_END"}
    /\ cblog[3].out = <<RegularFrame>> \o LE32(Len(cblog[3].buf.data))
                         \o cblog[3].buf.data
    /\ b1_config_sent = 2

\* TcpIpReader.read_exact is running or has ended
InReadExact == rx_pc \in {"tcp_loop", "tcp_true", "tcp_false", "tcp_thrown"}

\* buffer[0..cnt) holds the cnt bytes that followed the stream position at
\* the call, and no byte more was taken from the stream
ExactlyStored ==
    /\ rxpos - rdStart = rdCnt
    /\ Take(buffer, rdCnt) = SubSeq(txout, rdStart + 1, rdStart + rdCnt)

\* true is returned only when exactly cnt bytes were stored in buffer[0..cnt)
TrueOnlyWhenExact == rx_pc = "tcp_true" => ExactlyStored

\* C32: TcpIpReader.read_exact returns true only when exactly cnt bytes were
\* stored in buffer[0..cnt); once a read has met the end of the stream before
\* cnt bytes arrived the call has returned false: it is not in its loop any
\* more and it has thrown nothing
C32_ReadExact ==
    /\ TrueOnlyWhenExact
    /\ rx_pc # "tcp_thrown"
    /\ (InReadExact /\ EofReads > 0) => rx_pc = "tcp_false"

\* C33: the crop rectangle sent to the camera by "move=" commands that start
\* from the full frame stays inside the frame and is not empty
C33_CropInFrame ==
    /\ crop.x >= 0 /\ crop.y >= 0
    /\ crop.width > 0 /\ crop.height > 0
    /\ crop.x + crop.width <= 65536
    /\ crop.y + crop.height <= 65536

\* the i-th callback sent the tag MotionAlarm for the score it reported
AlarmSentFor(i) ==
    /\ Len(cblog[i].out) = 3
    /\ cblog[i].out[1] = MotionInFrame
    /\ cblog[i].out[3] = MotionAlarm

\* C34: whatever the interleaving of receive_commands with the callback, an
\* alarm sent for a score m has m greater than a non-zero value that
\* gMotionAlarm held; none is sent by comparing with the disabled value 0
C34_AlarmRace ==
    \A i \in 1..Len(cblog) :
        AlarmSentFor(i) =>
            \E held \in alarm_held : held # 0 /\ cblog[i].out[2] > held

\* C35: whatever the interleaving of receive_commands with handle_frame_end,
\* while runTimeShowStat is 0 (from the "stat=0" command that cleared it to
\* the next non-zero "stat" command) the overlay text is empty
C35_OverlayOff == runTimeShowStat = 0 => annotate_text = ""

\* the callback that stored the partial which the i-th callback found pending
ChunkOf(i) ==
    CHOOSE j \in 1..(i - 1) :
        /\ BecamePartial(j)
        /\ \A k \in (j + 1)..(i - 1) : ~BecamePartial(k)

\* the i-th callback sent one frame made of the pending partial and its buffer
Concatenated(i) ==
    /\ cblog[i].pend # NULL
    /\ cblog[i].emit = "picture"
    /\ cblog[i].payload = cblog[i].pend[1].data \o cblog[i].buf.data

\* C36: when SwitchMotionVectorsOnFly has disabled and enabled the encoder
\* output port no partial is pending, and no frame is made of a chunk
\* delivered before the toggle and a chunk delivered after it
C36_ToggleDropsPartial ==
    /\ Len(cblog) \in toggled_at => p_buf_partial_begin = NULL
    /\ \A i \in 1..Len(cblog) :
          Concatenated(i) =>
              ~ \E t \in toggled_at : ChunkOf(i) <= t /\ t < i

\* C37: the end of the control channel (receive_commands returning at end of
\* input or on a read error) does not stop, close or disrupt the data path:
\* the socket stays open and the callbacks keep sending frames on it
C37_DataPathSurvives ==
    ctl_pc # "getline" => tx_pc = "running" /\ sock_connected

\* ConnectToHost is at the head of its loop and will make another attempt
AttemptStarts == cth_pc = "loop" /\ ~bConnected /\ iConnectCnt < MaxAttempts

\* C38: at the start of every connection attempt of ConnectToHost no socket
\* of an earlier attempt is open, however that attempt ended
C38_NoDescriptorLeft == AttemptStarts => cth_open = {}

====
